---- MODULE Spec2Model ----
(***************************************************************************)
(* Model of the support bot of src/support_bot.py: the users, residents,   *)
(* issues and issue_logs tables, the per-user context.user_data session,   *)
(* the state of the ticket-authoring ConversationHandler, the delivery     *)
(* attempts of the notification fan-outs, and one action per update        *)
(* handler and scheduled job.  Handlers of one python-telegram-bot         *)
(* Application run one update at a time, so every handler is one atomic    *)
(* action.                                                                 *)
(*                                                                         *)
(* Texts are sequences of one-character strings.  Cyrillic literals of the *)
(* source are written in a one-letter-per-letter Latin transliteration     *)
(* (potop = "потоп"), which keeps lengths and substring relations.         *)
(***************************************************************************)
EXTENDS Integers, Sequences, FiniteSets, TLC

(***************************************************************************)
(* Bounds of the model.                                                    *)
(***************************************************************************)
MaxIssues == 1
MaxCompletions == 2
MaxFaults == 1
\* open tickets in the store at the start of the paging scenario
QueueLen == 6

(***************************************************************************)
(* Program constants.                                                      *)
(***************************************************************************)
SUPPORT_ROLES == [user |-> 1, agent |-> 2, admin |-> 3, resident |-> 4]

\* show_active_requests: items_per_page = 5
items_per_page == 5

URGENT_KEYWORDS ==
    << <<"p","o","t","o","p">>,
       <<"z","a","t","o","p">>,
       <<"p","o","j","a","r">>,
       <<"a","v","a","r","i","q">>,
       <<"s","r","o","c","n","o">>,
       <<"o","p","a","s","n","o">>,
       <<"c","r","e","z","v","i","c","a","y","n","o">>,
       <<"e","k","s","t","r","e","n","n","o">>,
       <<"k","r","i","t","i","c","e","s","k","i">>,
       <<"n","e","m","e","d","l","e","n","n","o">>,
       <<"u","g","r","o","z","a">> >>

\* Telegram identities that send updates: 1 is stored as admin, 2 as agent,
\* 3 is unknown to the bot or a registered resident.
UserIds == {1, 2, 3}

\* who sends which updates: the identities that register and author
\* tickets, those that press the staff buttons, those that press the
\* administrator buttons
Authors == {3}
Staff == {2}
Admins == {1}

NoText == << >>

(***************************************************************************)
(* Text primitives: str.strip, str.lower, `in`, re.sub, re.match, int.     *)
(***************************************************************************)
LowerCase == <<"a","b","c","d","e","f","g","h","i","j","k","l","m",
               "n","o","p","q","r","s","t","u","v","w","x","y","z">>
UpperCase == <<"A","B","C","D","E","F","G","H","I","J","K","L","M",
               "N","O","P","Q","R","S","T","U","V","W","X","Y","Z">>
Digits == <<"0","1","2","3","4","5","6","7","8","9">>

Range(s) == {s[i] : i \in DOMAIN s}

IsLetter(c) == c \in Range(LowerCase) \cup Range(UpperCase)
IsDigit(c) == c \in Range(Digits)
IsSpace(c) == c = " "

LowerChar(c) ==
    IF c \in Range(UpperCase)
    THEN LowerCase[CHOOSE i \in DOMAIN UpperCase : UpperCase[i] = c]
    ELSE c

Lower(s) == [i \in DOMAIN s |-> LowerChar(s[i])]

\* str.strip(): drop leading and trailing whitespace
Strip(s) ==
    LET idx == {i \in DOMAIN s : ~IsSpace(s[i])}
    IN IF idx = {} THEN NoText
       ELSE LET lo == CHOOSE i \in idx : \A j \in idx : i <= j
                hi == CHOOSE i \in idx : \A j \in idx : i >= j
            IN SubSeq(s, lo, hi)

\* kw in s
Contains(s, kw) ==
    \E i \in 0..(Len(s) - Len(kw)) : SubSeq(s, i + 1, i + Len(kw)) = kw

\* re.sub(r"[^\d+]", "", s) and re.sub(r"[^\d]", "", s)
RECURSIVE Filter(_, _)
Filter(s, keep) ==
    IF s = << >> THEN << >>
    ELSE IF Head(s) \in keep THEN <<Head(s)>> \o Filter(Tail(s), keep)
         ELSE Filter(Tail(s), keep)

AllDigits(s) == \A i \in DOMAIN s : IsDigit(s[i])

\* any(keyword in text.lower() for keyword in urgent_keywords)
classifyUrgency(text) ==
    \E k \in DOMAIN URGENT_KEYWORDS : Contains(Lower(text), URGENT_KEYWORDS[k])

\* re.match(r'^[А-Яа-яA-Za-z\s-]+$', name)
NameMatches(name) ==
    /\ name # << >>
    /\ \A i \in DOMAIN name : IsLetter(name[i]) \/ IsSpace(name[i]) \/ name[i] = "-"

\* re.match(r"^\+\d{10,15}$", cleaned)
\* a phone check that puts no limit on the number of digits
PhoneMatchesPlusAnyLength(cleaned) ==
    cleaned # << >> /\ cleaned[1] = "+" /\ AllDigits(Tail(cleaned))

PhoneMatchesPlus(cleaned) ==
    /\ Len(cleaned) >= 1
    /\ cleaned[1] = "+"
    /\ AllDigits(Tail(cleaned))
    /\ Len(cleaned) - 1 >= 10
    /\ Len(cleaned) - 1 <= 15

\* re.match(r"^\+?\d{10,15}$", cleaned)
PhoneMatchesOptPlus(cleaned) ==
    LET ds == IF cleaned # << >> /\ cleaned[1] = "+" THEN Tail(cleaned) ELSE cleaned
    IN /\ AllDigits(ds)
       /\ Len(ds) >= 10
       /\ Len(ds) <= 15

DigitValue(c) == (CHOOSE i \in DOMAIN Digits : Digits[i] = c) - 1

RECURSIVE DecimalValue(_)
DecimalValue(ds) ==
    IF ds = << >> THEN 0
    ELSE 10 * DecimalValue(SubSeq(ds, 1, Len(ds) - 1)) + DigitValue(ds[Len(ds)])

\* int(text): [ok, val].  A numeral of more than 9 digits denotes an id
\* beyond every modelled identity; it is reported as val 0, which is no
\* user id.
ParseInt(s) ==
    LET signed == s # << >> /\ s[1] \in {"+", "-"}
        ds == IF signed THEN Tail(s) ELSE s
        ok == ds # << >> /\ AllDigits(ds)
    IN [ok |-> ok,
        val |-> IF ~ok \/ Len(ds) > 9 THEN 0
                ELSE IF signed /\ s[1] = "-" THEN 0 - DecimalValue(ds)
                     ELSE DecimalValue(ds)]

(***************************************************************************)
(* Inputs: the texts, captions and button payloads users send.             *)
(***************************************************************************)
TxtUrgent == <<"a"," ","P","o","t","o","p">>
TxtNormal == <<"l","a","m","p","a">>
TxtBlank == <<" ">>
TxtPhone == <<"+","7","7","0","7","1","2","3","4","5","6","7">>
TxtId1 == <<"1">>
TxtId2 == <<"2">>
TxtId3 == <<"3">>

Texts == {TxtUrgent, TxtNormal, TxtBlank, TxtPhone, TxtId2, TxtId3}

\* process_user_name: len(user_name) > 100
MaxNameLen == 100

\* answers of the registration scenario: names at and over the length
\* limit, and phone numbers with 7, 6 and 16 digits, with no '+', with
\* separators, and with a word in front
TxtName100 == [i \in 1..MaxNameLen |-> "a"]
TxtName101 == [i \in 1..(MaxNameLen + 1) |-> "a"]
TxtPhone7 == <<"+","1","2","3","4","5","6","7">>
TxtPhone6 == <<"+","1","2","3","4","5","6">>
TxtPhone16 == <<"+","1","2","3","4","5","6","7","8","9","0","1","2","3","4","5","6">>
TxtPhoneNoPlus == <<"7","7","0","7","1","2","3","4","5","6","7">>
TxtPhoneSep == <<"+","7"," ","7","0","7"," ","1","2","3","-","4","5","-","6","7">>
TxtPhoneWord == <<"t","e","l","+","7","7","0","7","1","2","3","4","5","6","7">>

RegistrationTexts ==
    {TxtNormal, TxtBlank, TxtName100, TxtName101, TxtPhone, TxtPhone7, TxtPhone6,
     TxtPhone16, TxtPhoneNoPlus, TxtPhoneSep, TxtPhoneWord}

\* the texts sent in the role scenario and in the dialogue scenario
RoleTexts == {TxtNormal, TxtId2, TxtId3}
DialogueTexts == {TxtNormal, TxtBlank, TxtPhone}

\* the texts a user answers with, by the handler the text is routed to
Answers(handler) ==
    CASE handler = "process_user_name" -> {TxtNormal, TxtPhone, TxtName100, TxtName101}
      [] handler = "process_user_address" -> {TxtNormal, TxtBlank}
      [] handler = "process_user_phone" ->
             {TxtPhone, TxtNormal, TxtPhone7, TxtPhone6, TxtPhone16, TxtPhoneNoPlus,
              TxtPhoneSep, TxtPhoneWord}
      [] handler = "process_problem_report" -> {TxtUrgent, TxtNormal, TxtBlank}
      [] handler = "save_solution" -> {TxtUrgent, TxtNormal}
      [] handler = "process_promote_user_id" -> {TxtId1, TxtId2, TxtId3, TxtNormal}
      [] handler = "process_resident_delete" -> {TxtId2, TxtId3, TxtNormal}
      [] handler = "process_resident_id_add" -> {TxtId1, TxtId2, TxtId3, TxtNormal}
      [] handler = "process_new_resident_phone" -> {TxtPhone, TxtNormal}
      [] handler = "send_user_message" -> {TxtId3, TxtNormal}
      [] OTHER -> {TxtNormal}

\* message.caption of a photo or video; NoText is "no caption"
Captions == {TxtUrgent, NoText}

\* update.effective_user.full_name
TgFullName == <<"T","g">>

PhotoPrefix == <<"[","F","o","t","o","]"," ">>
VideoPrefix == <<"[","V","i","d","e","o","]"," ">>
VoiceText == <<"[","G","o","l","o","s","]">>
NoCaptionText == <<"B","e","z">>
AdminAddress == <<"A","d","m","i","n">>
NoAddressText == <<"N","e","t">>

\* where the store fails inside a handler
FailPoints == {"none", "connect", "issue", "log", "recipients", "delete"}

\* how bot.send_message to one chat ends: delivered, or one of the errors
\* of telegram.error
TelegramErrors == {"BadRequest", "Forbidden", "NetworkError"}
Outcomes == {"ok"} \cup TelegramErrors

ConvStates == {"END", "CHOOSE_REQUEST_TYPE", "GET_TEXT_REQUEST",
               "CHOOSE_VOICE_LANGUAGE", "GET_VOICE_REQUEST",
               "GET_PHOTO_REQUEST", "GET_VIDEO_REQUEST"}

(***************************************************************************)
(* State.                                                                  *)
(***************************************************************************)
VARIABLES
    users,       \* users.role by user_id; 0 = no row
    residents,   \* residents row by chat_id (resident_id is modelled as chat_id)
    issues,      \* issues rows, issue_id = index
    issue_logs,  \* issue_logs rows in insertion order
    user_data,   \* context.user_data of every identity
    conv,        \* state of request_conv_handler for every identity
    alerts,      \* issue ids send_urgent_alert was called for
    reply,       \* the answer given to the last update
    faults,      \* number of store failures so far
    chat,        \* how a bot.send_message to each identity ends at present
    dispatch,    \* the last notification fan-out and its delivery attempts
    keyboard,    \* the paging buttons under each identity's last bot message
    now,         \* the store's clock: NOW() of the next completion
    listed,      \* the issue ids the answer to the last update lists, in order
    pool         \* the connection pool: connections checked out, failed putconn

vars == <<users, residents, issues, issue_logs, user_data, conv, alerts, reply, faults,
          chat, dispatch, keyboard, now, listed, pool>>

\* init_db_pool: maxconn = int(os.getenv("DB_MAXCONN", 10))
maxconn == 10

\* the pool with every connection in it.  used: the connections checked out;
\* put_error: a putconn of a connection that is not checked out was refused
IdlePool == [used |-> 0, put_error |-> FALSE]

\* db_pool.getconn()
get_db_connection(p) == [p EXCEPT !.used = @ + 1]

\* db_pool.putconn(conn) under except psycopg2.Error; held: conn is checked
\* out, i.e. it was not given back already
release_db_connection(p, held) ==
    IF held THEN [p EXCEPT !.used = @ - 1] ELSE [p EXCEPT !.put_error = TRUE]

\* no fan-out yet.  kind: which fan-out; tickets: the issue ids it is about;
\* recipients: the recipient list it built; attempts: the send_message calls
\* it made, in order; notice: the failed recipients reported to the director
NoDispatch ==
    [kind |-> "none", tickets |-> << >>, recipients |-> << >>,
     attempts |-> << >>, notice |-> {}]

NoResident == [present |-> FALSE, full_name |-> NoText, address |-> NoText, phone |-> NoText]

\* a session key that is not set
MissingKey == <<"missing">>

EmptySession ==
    [flags |-> {},
     cached_role |-> 0,
     messaging_user_id |-> 0,
     new_resident_chat_id |-> 0,
     new_resident_name |-> MissingKey,
     new_resident_address |-> MissingKey,
     user_name |-> NoText,
     user_address |-> NoText,
     user_phone |-> NoText,
     problem_text |-> NoText,
     is_urgent |-> "unset",
     current_issue_id |-> 0,
     promote_user_id |-> 0,
     active_requests_page |-> 0,
     last_request_list |-> "none"]

\* The store outlives the process (CREATE TABLE IF NOT EXISTS): at start the
\* staff is provisioned, and identity 3 is unknown or a registered resident.
\* Sessions and conversations start empty.
RegisteredResident ==
    [present |-> TRUE, full_name |-> TxtNormal, address |-> TxtNormal,
     phone |-> Filter(TxtPhone, Range(Digits) \cup {"+"})]

Init ==
    /\ \E registered \in BOOLEAN :
         /\ users = [u \in UserIds |->
                       CASE u = 1 -> SUPPORT_ROLES.admin
                         [] u = 2 -> SUPPORT_ROLES.agent
                         [] OTHER -> IF registered THEN SUPPORT_ROLES.resident ELSE 0]
         /\ residents = [u \in UserIds |->
                           IF u = 3 /\ registered THEN RegisteredResident ELSE NoResident]
    /\ issues = << >>
    /\ issue_logs = << >>
    /\ user_data = [u \in UserIds |-> EmptySession]
    /\ conv = [u \in UserIds |-> "END"]
    /\ alerts = {}
    /\ reply = "none"
    /\ faults = 0
    /\ chat = [u \in UserIds |-> "ok"]
    /\ dispatch = NoDispatch
    /\ keyboard = [u \in UserIds |-> {}]
    /\ now = 1
    /\ listed = << >>
    /\ pool = IdlePool

(***************************************************************************)
(* Role resolution.                                                        *)
(***************************************************************************)
\* str(n): the decimal digits of a non-negative integer
RECURSIVE Str(_)
Str(n) == IF n < 10 THEN <<Digits[n + 1]>> ELSE Str(n \div 10) \o <<Digits[(n % 10) + 1]>>

\* Python values with their type, and ==, which is False across str and int
PyStr(text) == [type |-> "str", val |-> text]
PyInt(n) == [type |-> "int", val |-> n]
PyEq(a, b) == a.type = b.type /\ a.val = b.val

\* The director's chat id of the environment, an int once the module has
\* loaded (int(DIRECTOR_CHAT_ID)).  Here it is the identity stored as agent.
DIRECTOR_CHAT_ID == 2

\* SELECT role FROM users: the stored role, or "user" when there is no row
RoleOf(us, u) == IF us[u] = 0 THEN SUPPORT_ROLES.user ELSE us[u]

\* INSERT ... ON CONFLICT DO NOTHING of get_user_role
\* an upsert that also overwrites the role of a row that exists
EnsureUserUpsertingRole(us, u) == [us EXCEPT ![u] = SUPPORT_ROLES.user]

EnsureUser(us, u) == IF us[u] = 0 THEN [us EXCEPT ![u] = SUPPORT_ROLES.user] ELSE us

\* get_user_role without a cached role: [role, users], the role returned and
\* the users table left behind.  db_error is a psycopg2.Error in its store
\* access.
get_user_role(us, user_id, db_error) ==
    IF PyEq(PyStr(Str(user_id)), PyInt(DIRECTOR_CHAT_ID))
    THEN [role |-> SUPPORT_ROLES.admin,
          users |-> IF db_error THEN us ELSE [us EXCEPT ![user_id] = SUPPORT_ROLES.admin]]
    ELSE IF db_error
    THEN [role |-> SUPPORT_ROLES.user, users |-> us]
    ELSE [role |-> RoleOf(us, user_id), users |-> EnsureUser(us, user_id)]

\* role in [agent, admin]
is_agent(us, u) ==
    get_user_role(us, u, FALSE).role \in {SUPPORT_ROLES.agent, SUPPORT_ROLES.admin}

is_admin(us, u) == get_user_role(us, u, FALSE).role = SUPPORT_ROLES.admin

\* The state a handler of identity u starts from and the shape of its result.
\* send_and_remember deletes the previous bot message, so the paging buttons
\* are gone unless the handler renders them again.
Cur(u) ==
    [users |-> users, residents |-> residents, issues |-> issues,
     issue_logs |-> issue_logs, ud |-> user_data[u], alerts |-> alerts,
     dispatch |-> dispatch, keyboard |-> {}, now |-> now, listed |-> << >>,
     pool |-> pool,
     text |-> "none", hit |-> FALSE]

(***************************************************************************)
(* Ticket creation.                                                        *)
(***************************************************************************)
\* "urgent" if is_urgent else "normal"; the flag comes from the session
\* when the session has one, else from the text being saved
StoredCategory(ud, problem_text) ==
    LET is_urgent == IF ud.is_urgent = "unset" THEN classifyUrgency(problem_text)
                     ELSE ud.is_urgent = "yes"
    IN IF is_urgent THEN "urgent" ELSE "normal"

\* the row INSERT INTO issues writes
NewIssueRow(resident_id, problem_text, category, media) ==
    [resident_id |-> resident_id, description |-> problem_text,
     category |-> category, status |-> "new", solution |-> NoText,
     completed_at |-> 0, closed_by |-> 0, media |-> media]

\* the row INSERT INTO issue_logs writes
LogRow(issue_id, action, user_id) ==
    [issue_id |-> issue_id, action |-> action, user_id |-> user_id]

\* Result: the state left in the store, the issue id, and how the call
\* ended: "ok", "ValueError" or "DbError".
save_request_to_db(s, u, problem_text, media, fp) ==
    LET role == get_user_role(s.users, u, FALSE).role
        us1 == get_user_role(s.users, u, FALSE).users
        ud == s.ud
        full_name == IF ud.user_name = NoText THEN TgFullName ELSE ud.user_name
        address == IF ud.user_address = NoText
                   THEN (IF role = SUPPORT_ROLES.admin THEN AdminAddress ELSE NoText)
                   ELSE ud.user_address
        phone == ud.user_phone
        missing == role # SUPPORT_ROLES.admin
                   /\ (full_name = NoText \/ address = NoText
                       \/ phone = NoText \/ problem_text = NoText)
        res1 == IF role # SUPPORT_ROLES.admin /\ ~s.residents[u].present
                THEN [s.residents EXCEPT
                        ![u] = [present |-> TRUE, full_name |-> full_name,
                                address |-> address, phone |-> phone]]
                ELSE s.residents
        resident_id == IF role # SUPPORT_ROLES.admin THEN u ELSE 0
        issue_id == Len(s.issues) + 1
        row == NewIssueRow(resident_id, problem_text,
                           StoredCategory(ud, problem_text), media)
        s1 == [s EXCEPT !.users = us1]
        s2 == [s1 EXCEPT !.residents = res1]
        s3 == [s2 EXCEPT !.issues = Append(s.issues, row)]
        s4 == [s3 EXCEPT !.issue_logs = Append(s.issue_logs, LogRow(issue_id, "created", u))]
    IN IF missing THEN [status |-> "ValueError", issue_id |-> 0, st |-> s1]
       ELSE IF fp = "connect"
       THEN [status |-> "DbError", issue_id |-> 0, st |-> [s1 EXCEPT !.hit = TRUE]]
       ELSE IF fp = "issue"
       THEN [status |-> "DbError", issue_id |-> 0, st |-> [s2 EXCEPT !.hit = TRUE]]
       ELSE IF resident_id = 0    \* issues.resident_id is NOT NULL
       THEN [status |-> "DbError", issue_id |-> 0, st |-> s2]
       ELSE IF fp = "log"
       THEN [status |-> "DbError", issue_id |-> 0, st |-> [s3 EXCEPT !.hit = TRUE]]
       ELSE [status |-> "ok", issue_id |-> issue_id, st |-> s4]

\* the rows of a SELECT user_id, as a list in ascending order
RECURSIVE SortedSeq(_)
SortedSeq(ids) ==
    IF ids = {} THEN << >>
    ELSE LET least == CHOOSE x \in ids : \A y \in ids : x <= y
         IN <<least>> \o SortedSeq(ids \ {least})

\* SELECT user_id FROM users WHERE role IN (...)
UsersWithRole(us, roles) == SortedSeq({u \in UserIds : us[u] \in roles})

\* for chat_id in recipients: try: send_message(...) except <caught>: the
\* attempts made for one ticket.  An error that is not caught leaves the loop.
RECURSIVE Deliver(_, _, _)
Deliver(issue_id, recipients, caught) ==
    IF recipients = << >> THEN << >>
    ELSE LET to == Head(recipients)
             attempt == [issue_id |-> issue_id, to |-> to, outcome |-> chat[to]]
         IN IF chat[to] \in {"ok"} \cup caught
            THEN <<attempt>> \o Deliver(issue_id, Tail(recipients), caught)
            ELSE <<attempt>>

\* a fan-out whose loop stops at the first failed delivery
send_urgent_alert_stops_at_failure(s, issue_id, fp) ==
    LET staff == UsersWithRole(s.users, {SUPPORT_ROLES.admin, SUPPORT_ROLES.agent})
        recipients == IF DIRECTOR_CHAT_ID \notin Range(staff)
                      THEN Append(staff, DIRECTOR_CHAT_ID) ELSE staff
    IN [s EXCEPT !.alerts = @ \cup {issue_id},
                 !.dispatch = [kind |-> "urgent", tickets |-> <<issue_id>>,
                               recipients |-> recipients,
                               attempts |-> Deliver(issue_id, recipients, {}),
                               notice |-> {}]]

\* a fan-out inside the ticket's transaction: a failed delivery or lookup
\* takes the ticket and its log entry back
send_urgent_alert_in_transaction(s, issue_id, fp) ==
    LET staff == UsersWithRole(s.users, {SUPPORT_ROLES.admin, SUPPORT_ROLES.agent})
        recipients == IF DIRECTOR_CHAT_ID \notin Range(staff)
                      THEN Append(staff, DIRECTOR_CHAT_ID) ELSE staff
        attempts == Deliver(issue_id, recipients, TelegramErrors)
        failed == fp = "recipients"
                  \/ \E k \in DOMAIN attempts : attempts[k].outcome # "ok"
        sent == [s EXCEPT !.alerts = @ \cup {issue_id},
                          !.hit = fp = "recipients",
                          !.dispatch = [kind |-> "urgent", tickets |-> <<issue_id>>,
                                        recipients |-> recipients,
                                        attempts |-> attempts, notice |-> {}]]
    IN IF failed
       THEN [sent EXCEPT !.issues = SubSeq(@, 1, Len(@) - 1),
                         !.issue_logs = SubSeq(@, 1, Len(@) - 1)]
       ELSE sent

\* The fan-out is recorded by the issue it was started for (alerts) and by
\* its delivery attempts (dispatch).  Every error of a delivery is caught
\* (except BadRequest, except Exception); a store error in the recipient
\* lookup ends the fan-out before any delivery.
send_urgent_alert(s, issue_id, fp) ==
    LET staff == UsersWithRole(s.users, {SUPPORT_ROLES.admin, SUPPORT_ROLES.agent})
        recipients == IF DIRECTOR_CHAT_ID \notin Range(staff)
                      THEN Append(staff, DIRECTOR_CHAT_ID) ELSE staff
        called == [s EXCEPT !.alerts = @ \cup {issue_id}]
    IN IF fp = "recipients"
       THEN [called EXCEPT !.hit = TRUE,
                           !.dispatch = [kind |-> "urgent", tickets |-> <<issue_id>>,
                                         recipients |-> << >>, attempts |-> << >>,
                                         notice |-> {}]]
       ELSE [called EXCEPT
               !.dispatch = [kind |-> "urgent", tickets |-> <<issue_id>>,
                             recipients |-> recipients,
                             attempts |-> Deliver(issue_id, recipients, TelegramErrors),
                             notice |-> {}]]

process_problem_report(s, u, text, fp) ==
    LET problem_text == Strip(text)
        ud1 == [s.ud EXCEPT !.problem_text = problem_text,
                            !.is_urgent = IF classifyUrgency(problem_text) THEN "yes" ELSE "no",
                            !.flags = @ \ {"awaiting_problem"}]
        s1 == [s EXCEPT !.ud = ud1]
        r == save_request_to_db(s1, u, problem_text, "none", fp)
        alerted == IF ud1.is_urgent = "yes" THEN send_urgent_alert(r.st, r.issue_id, fp)
                   ELSE r.st
    IN IF "awaiting_problem" \notin s.ud.flags
       THEN [s EXCEPT !.users = get_user_role(@, u, FALSE).users, !.text = "error_not_expected"]
       ELSE IF problem_text = NoText
       THEN [s EXCEPT !.text = "reprompt"]
       ELSE IF ud1.user_name = NoText \/ ud1.user_address = NoText \/ ud1.user_phone = NoText
       THEN [s1 EXCEPT !.users = get_user_role(@, u, FALSE).users, !.text = "error_missing_fields"]
       ELSE IF r.status = "ok"
       THEN [alerted EXCEPT !.ud = EmptySession, !.text = "accepted"]
       ELSE IF r.status = "ValueError"
       THEN [r.st EXCEPT !.text = "error_restart"]
       ELSE [r.st EXCEPT !.text = "try_later"]

get_text_request(s, u, text, fp) ==
    process_problem_report([s EXCEPT !.ud.flags = @ \cup {"awaiting_problem"}], u, text, fp)

(***************************************************************************)
(* Registration.                                                           *)
(***************************************************************************)
\* Result: [status, st] with status "ok", "ValueError" or "DbError"
save_resident_to_db(s, user_id, name, address, phone, fp) ==
    IF name = NoText \/ address = NoText \/ phone = NoText
       \/ ~NameMatches(name)
       \/ Len(address) > 255
       \/ ~PhoneMatchesOptPlus(Filter(phone, Range(Digits) \cup {"+"}))
    THEN [status |-> "ValueError", st |-> s]
    ELSE IF fp = "connect"
    THEN [status |-> "DbError", st |-> [s EXCEPT !.hit = TRUE]]
    ELSE [status |-> "ok",
          st |-> [s EXCEPT
                    !.users[user_id] = SUPPORT_ROLES.resident,
                    !.residents[user_id] =
                        [present |-> TRUE, full_name |-> name,
                         address |-> address, phone |-> phone]]]

process_user_name(s, u, text) ==
    LET user_name == Strip(text)
    IN IF ~({"awaiting_name", "registration_flow"} \subseteq s.ud.flags)
       THEN [s EXCEPT !.users = get_user_role(@, u, FALSE).users, !.text = "error_not_expected"]
       ELSE IF user_name = NoText \/ ~NameMatches(user_name)
       THEN [s EXCEPT !.text = "reprompt"]
       ELSE IF Len(user_name) > MaxNameLen
       THEN [s EXCEPT !.text = "reprompt"]
       ELSE [s EXCEPT !.ud.user_name = user_name,
                      !.ud.flags = (@ \ {"awaiting_name"}) \cup {"registration_flow", "awaiting_address"},
                      !.text = "prompt_address"]

process_user_address(s, u, text) ==
    LET user_address == Strip(text)
    IN IF ~({"awaiting_address", "registration_flow"} \subseteq s.ud.flags)
       THEN [s EXCEPT !.users = get_user_role(@, u, FALSE).users, !.text = "error_not_expected"]
       ELSE IF user_address = NoText
       THEN [s EXCEPT !.text = "reprompt"]
       ELSE [s EXCEPT !.ud.user_address = user_address,
                      !.ud.flags = (@ \ {"awaiting_address"}) \cup {"registration_flow", "awaiting_phone"},
                      !.text = "prompt_phone"]

process_user_phone(s, u, text, fp) ==
    LET cleaned_phone == Filter(Strip(text), Range(Digits) \cup {"+"})
        full_name == IF s.ud.user_name = NoText THEN TgFullName ELSE s.ud.user_name
        address == IF s.ud.user_address = NoText THEN NoAddressText ELSE s.ud.user_address
        r == save_resident_to_db(s, u, full_name, address, cleaned_phone, fp)
    IN IF ~({"awaiting_phone", "registration_flow"} \subseteq s.ud.flags)
       THEN [s EXCEPT !.users = get_user_role(@, u, FALSE).users, !.text = "error_not_expected"]
       ELSE IF ~PhoneMatchesPlus(cleaned_phone)
       THEN [s EXCEPT !.text = "reprompt"]
       ELSE IF r.status = "ok"
       THEN [r.st EXCEPT !.ud = EmptySession, !.text = "registered"]
       ELSE IF r.status = "DbError"
       THEN [r.st EXCEPT !.users = get_user_role(@, u, FALSE).users, !.text = "try_later"]
       ELSE [r.st EXCEPT !.users = get_user_role(@, u, FALSE).users, !.text = "error_contact_admin"]

(***************************************************************************)
(* Ticket completion.                                                      *)
(***************************************************************************)
NumComplete(logs) == Cardinality({k \in DOMAIN logs : logs[k].action = "complete"})

\* an update that flips the status instead of setting it
CompletedRowToggling(row, solution, closer, at) ==
    [row EXCEPT !.status = IF @ = "completed" THEN "new" ELSE "completed",
                !.solution = solution, !.completed_at = at, !.closed_by = closer]

\* UPDATE issues SET status = 'completed', solution, completed_at, closed_by
\* (completed_at: 0 is NULL, 1 is a timestamp)
\* a completion that stores no completion time
CompletedRowWithoutTime(row, solution, closer, at) ==
    [row EXCEPT !.status = "completed", !.solution = solution, !.closed_by = closer]

CompletedRow(row, solution, closer, at) ==
    [row EXCEPT !.status = "completed", !.solution = solution,
                !.completed_at = at, !.closed_by = closer]

\* SELECT ... FROM issues i JOIN residents r ... WHERE i.issue_id = %s
IssueFound(s, issue_id) ==
    /\ issue_id \in DOMAIN s.issues
    /\ s.issues[issue_id].resident_id \in UserIds
    /\ s.residents[s.issues[issue_id].resident_id].present

\* a notice to the resident that is guarded against BadRequest only
ResidentNoticeCaughtBadRequestOnly == {"BadRequest"}

\* the errors of the completion notice to the resident that save_solution
\* catches: except Exception
ResidentNoticeCaught == TelegramErrors

\* a not-found answer that records the completion all the same
solution_not_found_logging(s, u, issue_id) ==
    [s EXCEPT !.users = get_user_role(@, u, FALSE).users,
              !.issue_logs = Append(@, LogRow(issue_id, "complete", u)),
              !.text = "not_found"]

\* if not issue_data: the answer, and return
solution_not_found(s, u, issue_id) ==
    [s EXCEPT !.users = get_user_role(@, u, FALSE).users, !.text = "not_found"]

save_solution(s, u, text, fp) ==
    LET issue_id == s.ud.current_issue_id
        popped == [s.ud EXCEPT !.flags = @ \ {"awaiting_solution"},
                               !.current_issue_id = 0]
        resident_chat_id == s.issues[issue_id].resident_id
        notice == Deliver(issue_id, <<resident_chat_id>>, ResidentNoticeCaught)
        raised == notice[1].outcome \notin {"ok"} \cup ResidentNoticeCaught
        done == [s EXCEPT
                   !.issues[issue_id] =
                       CompletedRow(@, text, u, s.now),
                   !.now = @ + 1,
                   !.issue_logs = Append(@, LogRow(issue_id, "complete", u)),
                   !.dispatch = [kind |-> "completed", tickets |-> <<issue_id>>,
                                 recipients |-> <<resident_chat_id>>,
                                 attempts |-> notice, notice |-> {}]]
    IN IF issue_id = 0
       THEN [s EXCEPT !.users = get_user_role(@, u, FALSE).users, !.text = "error_no_current_issue"]
       ELSE IF fp = "connect"
       THEN [s EXCEPT !.users = get_user_role(@, u, FALSE).users, !.ud = popped,
                      !.text = "db_error", !.hit = TRUE]
       ELSE IF ~IssueFound(s, issue_id)
       THEN [solution_not_found(s, u, issue_id) EXCEPT !.ud = popped]
       ELSE IF raised
       THEN [done EXCEPT !.ud = popped, !.text = "error"]
       ELSE [done EXCEPT !.users = get_user_role(@, u, FALSE).users, !.ud = popped,
                         !.text = "completed"]

(***************************************************************************)
(* Role change.                                                            *)
(***************************************************************************)
(***************************************************************************)
(* Removal of a resident and of a staff member.                            *)
(***************************************************************************)
\* re.sub(r'[^\d-]', '', chat_id_input); int(cleaned_input); 0 is refused
validate_chat_id(chat_id_input) ==
    LET parsed == ParseInt(Filter(chat_id_input, Range(Digits) \cup {"-"}))
    IN [ok |-> parsed.ok /\ parsed.val # 0, val |-> parsed.val]

\* what is left of an issues row once it is deleted: issue_id is a SERIAL
\* and is not given to another ticket
DeletedIssue ==
    [NewIssueRow(0, NoText, "none", "none") EXCEPT !.status = "deleted"]

\* DELETE FROM residents WHERE chat_id = ...: the row, with it the
\* resident's issues (issues.resident_id ON DELETE CASCADE) and with them
\* their issue_logs (issue_logs.issue_id ON DELETE CASCADE)
DeleteResidentRow(s, chat_id) ==
    LET gone == {i \in DOMAIN s.issues : s.issues[i].resident_id = chat_id}
        kept(l) == l.issue_id \notin gone
    IN [s EXCEPT !.residents[chat_id] = NoResident,
                 !.issues = [i \in DOMAIN s.issues |->
                                IF i \in gone THEN DeletedIssue ELSE s.issues[i]],
                 !.issue_logs = SelectSeq(s.issue_logs, kept)]

\* DELETE FROM users WHERE user_id = ...: issues.closed_by is set to NULL;
\* issue_logs.user_id is NOT NULL and ON DELETE SET NULL, so the statement
\* fails while a log entry names the user
DeleteUserRow(s, user_id) ==
    IF \E k \in DOMAIN s.issue_logs : s.issue_logs[k].user_id = user_id
    THEN [ok |-> FALSE, st |-> s]
    ELSE [ok |-> TRUE,
          st |-> [s EXCEPT !.users[user_id] = 0,
                           !.issues = [i \in DOMAIN s.issues |->
                                          IF s.issues[i].closed_by = user_id
                                          THEN [s.issues[i] EXCEPT !.closed_by = 0]
                                          ELSE s.issues[i]]]]

\* a removal that commits after each of its two DELETE statements
process_resident_delete_committing_each(s, u, text, fp) ==
    LET parsed == validate_chat_id(Strip(text))
        resident_chat_id == parsed.val
        r1 == DeleteResidentRow(s, resident_chat_id)
        r2 == DeleteUserRow(r1, resident_chat_id)
    IN IF "awaiting_resident_id_delete" \notin s.ud.flags
       THEN [s EXCEPT !.users = get_user_role(@, u, FALSE).users, !.text = "error_not_expected"]
       ELSE IF ~parsed.ok
       THEN [s EXCEPT !.text = "reprompt"]
       ELSE IF resident_chat_id \notin UserIds \/ ~s.residents[resident_chat_id].present
       THEN [s EXCEPT !.users = get_user_role(@, u, FALSE).users, !.ud = EmptySession,
                      !.text = "resident_not_found"]
       ELSE IF fp = "delete" \/ ~r2.ok
       THEN [r1 EXCEPT !.users = get_user_role(@, u, FALSE).users, !.ud = EmptySession,
                       !.text = "db_error", !.hit = (fp = "delete")]
       ELSE [r2.st EXCEPT !.users = get_user_role(@, u, FALSE).users, !.ud = EmptySession,
                          !.text = "resident_deleted"]

\* both DELETE statements run in one transaction: a failure of the second
\* (fp = "delete", or the constraint of issue_logs.user_id) rolls the first
\* back.  The session is cleared in the finally clause.
process_resident_delete(s, u, text, fp) ==
    LET parsed == validate_chat_id(Strip(text))
        resident_chat_id == parsed.val
        r1 == DeleteResidentRow(s, resident_chat_id)
        r2 == DeleteUserRow(r1, resident_chat_id)
    IN IF "awaiting_resident_id_delete" \notin s.ud.flags
       THEN [s EXCEPT !.users = get_user_role(@, u, FALSE).users, !.text = "error_not_expected"]
       ELSE IF ~parsed.ok
       THEN [s EXCEPT !.text = "reprompt"]
       ELSE IF resident_chat_id \notin UserIds \/ ~s.residents[resident_chat_id].present
       THEN [s EXCEPT !.users = get_user_role(@, u, FALSE).users, !.ud = EmptySession,
                      !.text = "resident_not_found"]
       ELSE IF fp = "delete" \/ ~r2.ok
       THEN [s EXCEPT !.users = get_user_role(@, u, FALSE).users, !.ud = EmptySession,
                      !.text = "db_error", !.hit = (fp = "delete")]
       ELSE [r2.st EXCEPT !.users = get_user_role(@, u, FALSE).users, !.ud = EmptySession,
                          !.text = "resident_deleted"]

process_promote_user_id(s, u, text) ==
    LET parsed == ParseInt(Strip(text))
        user_id == parsed.val
    IN IF "awaiting_promote_user_id" \notin s.ud.flags
       THEN [s EXCEPT !.users = get_user_role(@, u, FALSE).users, !.text = "error_not_expected"]
       ELSE IF ~parsed.ok
       THEN [s EXCEPT !.text = "reprompt"]
       ELSE IF user_id = u
       THEN [s EXCEPT !.text = "error_own_role"]
       ELSE IF user_id \notin UserIds \/ s.users[user_id] = 0
       THEN [s EXCEPT !.text = "user_not_found"]
       ELSE [s EXCEPT !.ud.promote_user_id = user_id,
                      !.ud.flags = (@ \ {"awaiting_promote_user_id"}) \cup {"awaiting_role_selection"},
                      !.text = "prompt_role"]

\* UPDATE users SET role = %s WHERE user_id = %s
UpdateRole(us, user_id, new_role_value) ==
    IF user_id \in UserIds /\ us[user_id] # 0
    THEN [us EXCEPT ![user_id] = new_role_value]
    ELSE us

set_user_role(s, u, new_role_value) ==
    LET user_id == s.ud.promote_user_id
    IN IF "awaiting_role_selection" \notin s.ud.flags
       THEN [s EXCEPT !.users = get_user_role(@, u, FALSE).users, !.text = "error_not_expected"]
       ELSE [s EXCEPT
               !.users = get_user_role(UpdateRole(@, user_id, new_role_value), u, FALSE).users,
               !.ud = [s.ud EXCEPT !.promote_user_id = 0,
                                       !.flags = @ \ {"awaiting_role_selection"}],
               !.text = "role_changed"]

(***************************************************************************)
(* Provisioning of a resident by an administrator.                         *)
(***************************************************************************)
\* The connection of the residents lookup is given back in the inner finally
\* and once more in the outer finally, where conn is still set.
process_resident_id_add(s, u, text) ==
    LET sanitized_input == Filter(Strip(text), Range(Digits))
        chat_id == validate_chat_id(sanitized_input)
        conn == get_db_connection(s.pool)
        released == release_db_connection(release_db_connection(conn, TRUE), FALSE)
        s1 == [s EXCEPT !.ud.new_resident_chat_id = chat_id.val, !.pool = released]
    IN IF "awaiting_resident_id_add" \notin s.ud.flags
       THEN [s EXCEPT !.users = get_user_role(@, u, FALSE).users, !.text = "error_not_expected"]
       ELSE IF sanitized_input = NoText \/ ~chat_id.ok \/ chat_id.val <= 0
       THEN [s EXCEPT !.text = "reprompt"]
       ELSE IF s.pool.used >= maxconn    \* PoolError, a psycopg2.Error
       THEN [s EXCEPT !.ud.new_resident_chat_id = chat_id.val,
                      !.users = get_user_role(@, u, FALSE).users,
                      !.text = "db_error"]
       ELSE IF chat_id.val \in UserIds /\ s.residents[chat_id.val].present
       THEN [s1 EXCEPT !.users = get_user_role(@, u, FALSE).users,
                       !.text = "already_resident"]
       ELSE [s1 EXCEPT !.ud.flags = (@ \ {"awaiting_resident_id_add"})
                                       \cup {"awaiting_new_resident_name"},
                       !.text = "prompt_name"]

process_new_resident_name(s, u, text) ==
    IF "awaiting_new_resident_name" \notin s.ud.flags
    THEN [s EXCEPT !.users = get_user_role(@, u, FALSE).users, !.text = "error_not_expected"]
    ELSE [s EXCEPT !.ud.new_resident_name = Strip(text),
                   !.ud.flags = (@ \cup {"awaiting_new_resident_address"})
                                   \ {"awaiting_new_resident_name"},
                   !.text = "prompt_address"]

process_new_resident_address(s, u, text) ==
    IF "awaiting_new_resident_address" \notin s.ud.flags
    THEN [s EXCEPT !.users = get_user_role(@, u, FALSE).users, !.text = "error_not_expected"]
    ELSE [s EXCEPT !.ud.new_resident_address = text,
                   !.ud.flags = (@ \ {"awaiting_new_resident_address"})
                                   \cup {"awaiting_new_resident_phone"},
                   !.text = "prompt_phone"]

\* save_resident_to_db is called for the chat id the administrator entered;
\* the session is cleared whatever the outcome once the phone is well-formed
process_new_resident_phone(s, u, text, fp) ==
    LET chat_id == s.ud.new_resident_chat_id
        full_name == s.ud.new_resident_name
        address == s.ud.new_resident_address
        s0 == [s EXCEPT !.users = get_user_role(@, u, FALSE).users]
        cleaned_phone == Filter(Strip(text), Range(Digits) \cup {"+"})
        r == save_resident_to_db(s0, chat_id, full_name, address, cleaned_phone, fp)
    IN IF "awaiting_new_resident_phone" \notin s.ud.flags
       THEN [s0 EXCEPT !.text = "error_not_expected"]
       ELSE IF chat_id = 0 \/ full_name = MissingKey \/ address = MissingKey
       THEN [s0 EXCEPT !.text = "missing_data"]
       ELSE IF ~PhoneMatchesOptPlus(cleaned_phone)
       THEN [s0 EXCEPT !.text = "reprompt"]
       ELSE IF r.status = "ValueError"
       THEN [r.st EXCEPT !.ud = EmptySession, !.text = "none"]
       ELSE IF r.status = "DbError"
       THEN [r.st EXCEPT !.ud = EmptySession, !.text = "try_later"]
       ELSE IF chat[chat_id] \in {"ok", "BadRequest"}
       THEN [r.st EXCEPT !.ud = EmptySession, !.text = "resident_added"]
       ELSE [r.st EXCEPT !.ud = EmptySession, !.text = "none"]

(***************************************************************************)
(* A message of the support to a user.                                     *)
(***************************************************************************)
\* context.bot.send_message(chat_id=user_id, text="Сообщение от поддержки: ...")
\* under except Exception; the session keys are popped after a delivery
send_user_message(s, u, text) ==
    LET user_id == s.ud.messaging_user_id
        s0 == [s EXCEPT !.users = get_user_role(@, u, FALSE).users]
        sent == [s0 EXCEPT
                   !.dispatch = [kind |-> "support_message", tickets |-> << >>,
                                 recipients |-> <<user_id>>,
                                 attempts |-> <<[issue_id |-> 0, to |-> user_id,
                                                 outcome |-> chat[user_id]]>>,
                                 notice |-> {}]]
    IN IF user_id = 0
       THEN [s0 EXCEPT !.text = "error_no_user"]
       ELSE IF chat[user_id] = "ok"
       THEN [sent EXCEPT !.ud.messaging_user_id = 0,
                         !.ud.flags = @ \ {"awaiting_user_message"},
                         !.text = "message_sent"]
       ELSE [sent EXCEPT !.text = "send_failed"]

(***************************************************************************)
(* Text routing.                                                           *)
(***************************************************************************)
main_menu(s, u) == [s EXCEPT !.users = get_user_role(@, u, FALSE).users, !.text = "menu"]

save_user_data(s, u, text, fp) ==
    LET flags == s.ud.flags
    IN IF "awaiting_name" \in flags THEN process_user_name(s, u, text)
       ELSE IF "awaiting_address" \in flags THEN process_user_address(s, u, text)
       ELSE IF "awaiting_phone" \in flags THEN process_user_phone(s, u, text, fp)
       ELSE IF "awaiting_problem" \in flags THEN process_problem_report(s, u, text, fp)
       ELSE IF "awaiting_solution" \in flags THEN save_solution(s, u, text, fp)
       ELSE IF "awaiting_resident_id_add" \in flags THEN process_resident_id_add(s, u, text)
       ELSE IF "awaiting_new_resident_name" \in flags
       THEN process_new_resident_name(s, u, text)
       ELSE IF "awaiting_new_resident_address" \in flags
       THEN process_new_resident_address(s, u, text)
       ELSE IF "awaiting_new_resident_phone" \in flags
       THEN process_new_resident_phone(s, u, text, fp)
       ELSE IF "awaiting_resident_id_delete" \in flags
       THEN process_resident_delete(s, u, text, fp)
       ELSE IF "awaiting_user_message" \in flags THEN send_user_message(s, u, text)
       ELSE IF "awaiting_promote_user_id" \in flags THEN process_promote_user_id(s, u, text)
       ELSE main_menu(s, u)

\* the handler a text of identity u is routed to
Routed(u) ==
    LET flags == user_data[u].flags
    IN IF conv[u] = "GET_TEXT_REQUEST" THEN "process_problem_report"
       ELSE IF "awaiting_name" \in flags THEN "process_user_name"
       ELSE IF "awaiting_address" \in flags THEN "process_user_address"
       ELSE IF "awaiting_phone" \in flags THEN "process_user_phone"
       ELSE IF "awaiting_problem" \in flags THEN "process_problem_report"
       ELSE IF "awaiting_solution" \in flags THEN "save_solution"
       ELSE IF "awaiting_resident_id_add" \in flags THEN "process_resident_id_add"
       ELSE IF "awaiting_new_resident_name" \in flags THEN "process_new_resident_name"
       ELSE IF "awaiting_new_resident_address" \in flags THEN "process_new_resident_address"
       ELSE IF "awaiting_new_resident_phone" \in flags THEN "process_new_resident_phone"
       ELSE IF "awaiting_resident_id_delete" \in flags THEN "process_resident_delete"
       ELSE IF "awaiting_user_message" \in flags THEN "send_user_message"
       ELSE IF "awaiting_promote_user_id" \in flags THEN "process_promote_user_id"
       ELSE "main_menu"

(***************************************************************************)
(* Updates.  Every action is one handler run from start to end.            *)
(***************************************************************************)
\* what the update of identity u left behind
Apply(u, r) ==
    /\ users' = r.users
    /\ residents' = r.residents
    /\ issues' = r.issues
    /\ issue_logs' = r.issue_logs
    /\ user_data' = [user_data EXCEPT ![u] = r.ud]
    /\ alerts' = r.alerts
    /\ dispatch' = r.dispatch
    /\ reply' = r.text
    /\ chat' = chat
    /\ keyboard' = [keyboard EXCEPT ![u] = r.keyboard]
    /\ now' = r.now
    /\ listed' = r.listed
    /\ pool' = r.pool

\* the bounds of the model, and a store failure only where the store is used
Within(r, fp) ==
    /\ Len(r.issues) <= MaxIssues \/ Len(r.issues) = Len(issues)
    /\ NumComplete(r.issue_logs) <= MaxCompletions
    /\ fp # "none" => (r.hit /\ faults < MaxFaults)

\* button_handler starts with role = get_user_role(user_id, context): the role
\* cached in the session (cached_role, 0 when the key is absent) is returned
\* when there is one, and the store is not read; else the stored role is
\* read, the users row of a new identity inserted, and the role cached.
PressedRole(u) ==
    IF user_data[u].cached_role # 0 THEN user_data[u].cached_role
    ELSE get_user_role(users, u, FALSE).role

Pressed(u) ==
    IF user_data[u].cached_role # 0 THEN Cur(u)
    ELSE [Cur(u) EXCEPT !.users = get_user_role(@, u, FALSE).users,
                        !.ud.cached_role = get_user_role(users, u, FALSE).role]

\* callback "message_user_<user_id>"
message_user(u, user_id) ==
    /\ Apply(u, [Pressed(u) EXCEPT !.ud.messaging_user_id = user_id,
                                   !.ud.flags = @ \cup {"awaiting_user_message"},
                                   !.text = "prompt_message"])
    /\ UNCHANGED <<conv, faults>>

\* /report: the caller is refused when role < SUPPORT_ROLES["admin"]
generate_report_command(u) ==
    LET r == get_user_role(users, u, FALSE)
    IN /\ Apply(u, [Cur(u) EXCEPT !.users = r.users,
                                  !.text = IF r.role < SUPPORT_ROLES.admin
                                           THEN "denied" ELSE "report_menu"])
       /\ UNCHANGED <<conv, faults>>

\* callback "report_<period_type>": button_handler calls process_report_period,
\* which generates and sends the report of a known period
process_report_period(u, period_type) ==
    /\ Apply(u, IF period_type \in {"7", "30", "month"}
                THEN [Pressed(u) EXCEPT !.text = "report_sent"]
                ELSE [Pressed(u) EXCEPT !.users = get_user_role(@, u, FALSE).users,
                                        !.text = "bad_period"])
    /\ UNCHANGED <<conv, faults>>

\* GET /health of HealthCheckHandler: "with get_db_connection() as conn" ends
\* the connection's transaction and leaves the connection checked out; a
\* failure to get one is answered with "DB ERROR"
do_GET ==
    /\ pool' = IF pool.used < maxconn THEN get_db_connection(pool) ELSE pool
    /\ UNCHANGED <<users, residents, issues, issue_logs, user_data, conv, alerts,
                   reply, faults, chat, dispatch, keyboard, now, listed>>

\* callback "select_agent"
ButtonSelectAgent(u) ==
    /\ Apply(u, [Pressed(u) EXCEPT
                    !.text = IF PressedRole(u) = SUPPORT_ROLES.agent
                             THEN "agent_panel" ELSE "not_staff"])
    /\ UNCHANGED <<conv, faults>>


\* a text message: MessageHandler(filters.TEXT & ~filters.COMMAND, ...)
TextMessage(u, text, fp) ==
    LET r == IF conv[u] = "GET_TEXT_REQUEST"
             THEN get_text_request(Cur(u), u, text, fp)
             ELSE save_user_data(Cur(u), u, text, fp)
    IN /\ text \in Answers(Routed(u))
       /\ Within(r, fp)
       /\ Apply(u, r)
       /\ conv' = [conv EXCEPT ![u] = IF @ = "GET_TEXT_REQUEST" THEN "END" ELSE @]
       /\ faults' = IF fp = "none" THEN faults ELSE faults + 1

\* /start
start(u) ==
    /\ Apply(u, [Cur(u) EXCEPT !.ud = EmptySession,
                               !.users = get_user_role(@, u, FALSE).users, !.text = "menu"])
    /\ UNCHANGED <<conv, faults>>

\* callback "register_as_resident"
\* command /clear: the session is cleared, the recent messages are deleted
\* and the confirmation is sent with the menu of the caller's role
clear_chat(u) ==
    /\ Apply(u, [Cur(u) EXCEPT !.ud = EmptySession,
                               !.users = get_user_role(@, u, FALSE).users,
                               !.text = "cleared"])
    /\ UNCHANGED <<conv, faults>>

ButtonRegisterAsResident(u) ==
    /\ Apply(u, [Pressed(u) EXCEPT
                    !.ud = [EmptySession EXCEPT !.flags = {"registration_flow", "awaiting_name"}],
                    !.text = "prompt_name"])
    /\ UNCHANGED <<conv, faults>>

\* callback "cancel"
ButtonCancel(u) ==
    /\ Apply(u, [Pressed(u) EXCEPT !.ud = EmptySession, !.text = "menu"])
    /\ UNCHANGED <<conv, faults>>

\* callback "complete_request_<id>"
\* fp = "connect": the store fails under is_agent's get_user_role
complete_request(u, issue_id, fp) ==
    LET s == Pressed(u)
        role == get_user_role(s.users, u, fp = "connect").role
    IN /\ fp \in {"none", "connect"}
       /\ fp # "none" => faults < MaxFaults
       /\ Apply(u, IF role \notin {SUPPORT_ROLES.agent, SUPPORT_ROLES.admin}
                   THEN [s EXCEPT !.text = "denied"]
                   ELSE [s EXCEPT !.ud.flags = @ \cup {"awaiting_solution"},
                                  !.ud.current_issue_id = issue_id,
                                  !.text = "prompt_solution"])
       /\ faults' = IF fp = "none" THEN faults ELSE faults + 1
       /\ UNCHANGED conv

\* callback "request_detail_<id>", also the cancel button of the solution prompt
show_request_detail(u, issue_id) ==
    LET s == Pressed(u)
    IN /\ Apply(u, IF ~is_agent(s.users, u)
                   THEN [s EXCEPT !.text = "denied"]
                   ELSE IF ~IssueFound(s, issue_id)
                   THEN [s EXCEPT !.text = "not_found"]
                   ELSE [s EXCEPT !.text = "detail"])
       /\ UNCHANGED <<conv, faults>>

\* callback "promote_demote_user"
\* callback "add_resident"
add_resident(u) ==
    LET s == Pressed(u)
    IN /\ Apply(u, IF get_user_role(s.users, u, FALSE).role # SUPPORT_ROLES.admin
                      /\ u # DIRECTOR_CHAT_ID
                   THEN [s EXCEPT !.text = "denied"]
                   ELSE [s EXCEPT !.ud.flags = @ \cup {"awaiting_resident_id_add"},
                                  !.text = "prompt_resident_id"])
       /\ UNCHANGED <<conv, faults>>

\* callback "delete_resident"
delete_resident(u) ==
    LET s == Pressed(u)
    IN /\ Apply(u, IF get_user_role(s.users, u, FALSE).role # SUPPORT_ROLES.admin
                   THEN [s EXCEPT !.text = "denied"]
                   ELSE [s EXCEPT !.ud = [EmptySession EXCEPT
                                            !.flags = {"awaiting_resident_id_delete"}],
                                  !.text = "prompt_resident_id"])
       /\ UNCHANGED <<conv, faults>>

\* callback "delete_agent_<agent_id>"
delete_agent(u, agent_id) ==
    LET s == Pressed(u)
        r == DeleteUserRow(s, agent_id)
    IN /\ Apply(u, IF ~is_admin(s.users, u)
                   THEN [s EXCEPT !.text = "denied"]
                   ELSE IF agent_id = u
                   THEN [s EXCEPT !.text = "error_delete_self"]
                   ELSE IF ~r.ok
                   THEN [s EXCEPT !.text = "error_deleting_agent"]
                   ELSE [r.st EXCEPT !.text = "staff_menu"])
       /\ UNCHANGED <<conv, faults>>

promote_demote_user(u) ==
    LET s == Pressed(u)
    IN /\ Apply(u, IF ~is_admin(s.users, u)
                   THEN [s EXCEPT !.text = "denied"]
                   ELSE [s EXCEPT !.ud.flags = @ \cup {"awaiting_promote_user_id"},
                                  !.text = "prompt_user_id"])
       /\ UNCHANGED <<conv, faults>>

\* callback "manage_agents", also the cancel button of the role-change prompts
manage_agents_menu(u) ==
    LET s == Pressed(u)
    IN /\ Apply(u, IF ~is_admin(s.users, u)
                   THEN [s EXCEPT !.text = "denied"]
                   ELSE [s EXCEPT !.text = "staff_menu"])
       /\ UNCHANGED <<conv, faults>>

\* callbacks "set_role_agent", "set_role_admin", "set_role_user"
ButtonSetRole(u, new_role_value) ==
    /\ Apply(u, set_user_role(Pressed(u), u, new_role_value))
    /\ UNCHANGED <<conv, faults>>

\* a callback no branch of button_handler knows, such as "new_request"
\* pressed inside the authoring conversation
ButtonUnknown(u) ==
    /\ Apply(u, [Pressed(u) EXCEPT !.text = "unknown_command"])
    /\ UNCHANGED <<conv, faults>>

(***************************************************************************)
(* The ticket-authoring conversation (request_conv_handler).  A handler    *)
(* that raises leaves the conversation state as it was; error_handler then *)
(* answers, and clears the session when the error is a ValueError.         *)
(***************************************************************************)
\* a lookup that takes the profile for present whether or not there is a row
load_resident_data_any_row(s, u) ==
    [loaded |-> TRUE,
     ud |-> [s.ud EXCEPT !.user_name = s.residents[u].full_name,
                         !.user_address = s.residents[u].address,
                         !.user_phone = s.residents[u].phone]]

\* SELECT full_name, address, phone FROM residents WHERE chat_id = %s, copied
\* into the session when there is a row
load_resident_data(s, u) ==
    IF s.residents[u].present
    THEN [loaded |-> TRUE,
          ud |-> [s.ud EXCEPT !.user_name = s.residents[u].full_name,
                              !.user_address = s.residents[u].address,
                              !.user_phone = s.residents[u].phone]]
    ELSE [loaded |-> FALSE, ud |-> s.ud]

\* callback "new_request" outside the conversation
new_request_start(u) ==
    LET data == load_resident_data(Cur(u), u)
    IN /\ conv[u] = "END"
       /\ Apply(u, IF data.loaded
                   THEN [Cur(u) EXCEPT !.ud = data.ud, !.text = "choose_request_type"]
                   ELSE [Cur(u) EXCEPT !.text = "register_first"])
       /\ conv' = [conv EXCEPT ![u] = IF data.loaded THEN "CHOOSE_REQUEST_TYPE" ELSE "END"]
       /\ UNCHANGED faults

\* callbacks "text_request", "voice_request", "photo_request", "video_request"
choose_request_type(u, request_type) ==
    /\ conv[u] = "CHOOSE_REQUEST_TYPE"
    /\ Apply(u, [Cur(u) EXCEPT !.text = "prompt_request"])
    /\ conv' = [conv EXCEPT ![u] =
                  CASE request_type = "text_request" -> "GET_TEXT_REQUEST"
                    [] request_type = "voice_request" -> "CHOOSE_VOICE_LANGUAGE"
                    [] request_type = "photo_request" -> "GET_PHOTO_REQUEST"
                    [] request_type = "video_request" -> "GET_VIDEO_REQUEST"]
    /\ UNCHANGED faults

\* callbacks "lang_ru-RU", "lang_kk-KZ"
choose_voice_language(u) ==
    /\ conv[u] = "CHOOSE_VOICE_LANGUAGE"
    /\ Apply(u, [Cur(u) EXCEPT !.text = "prompt_request"])
    /\ conv' = [conv EXCEPT ![u] = "GET_VOICE_REQUEST"]
    /\ UNCHANGED faults

\* callback "cancel_request" inside the conversation
cancel_request(u) ==
    /\ conv[u] # "END"
    /\ Apply(u, [Cur(u) EXCEPT !.text = "cancelled"])
    /\ conv' = [conv EXCEPT ![u] = "END"]
    /\ UNCHANGED faults

\* get_photo_request and get_video_request: [st, ended]
MediaRequest(s, u, prefix, caption, media, fp) ==
    LET description == IF caption = NoText THEN NoCaptionText ELSE caption
        r == save_request_to_db(s, u, prefix \o description, media, fp)
    IN IF r.status = "ok"
       THEN [st |-> [r.st EXCEPT !.ud = EmptySession, !.text = "accepted"], ended |-> TRUE]
       ELSE IF r.status = "ValueError"
       THEN [st |-> [r.st EXCEPT !.ud = EmptySession, !.text = "error"], ended |-> FALSE]
       ELSE [st |-> [r.st EXCEPT !.text = "error"], ended |-> FALSE]

get_photo_request(u, caption, fp) ==
    LET r == MediaRequest(Cur(u), u, PhotoPrefix, caption, "photo", fp)
    IN /\ conv[u] = "GET_PHOTO_REQUEST"
       /\ Within(r.st, fp)
       /\ Apply(u, r.st)
       /\ conv' = [conv EXCEPT ![u] = IF r.ended THEN "END" ELSE @]
       /\ faults' = IF fp = "none" THEN faults ELSE faults + 1

get_video_request(u, caption, fp) ==
    LET r == MediaRequest(Cur(u), u, VideoPrefix, caption, "video", fp)
    IN /\ conv[u] = "GET_VIDEO_REQUEST"
       /\ Within(r.st, fp)
       /\ Apply(u, r.st)
       /\ conv' = [conv EXCEPT ![u] = IF r.ended THEN "END" ELSE @]
       /\ faults' = IF fp = "none" THEN faults ELSE faults + 1

get_voice_request(u, fp) ==
    LET r == save_request_to_db(Cur(u), u, VoiceText, "voice", fp)
    IN /\ conv[u] = "GET_VOICE_REQUEST"
       /\ Within(r.st, fp)
       /\ Apply(u, [r.st EXCEPT !.text = IF r.status = "ok" THEN "accepted" ELSE "error"])
       /\ conv' = [conv EXCEPT ![u] = "END"]
       /\ faults' = IF fp = "none" THEN faults ELSE faults + 1

(***************************************************************************)
(* The queue of open tickets and its pages.                                *)
(***************************************************************************)
\* a queue of open tickets that lists the newest ticket first
ActiveRequestsNewestFirst(s) ==
    LET ids == {i \in DOMAIN s.issues :
                  /\ s.issues[i].status = "new"
                  /\ s.issues[i].resident_id \in UserIds
                  /\ s.residents[s.issues[i].resident_id].present}
    IN [k \in 1..Cardinality(ids) |-> SortedSeq(ids)[Cardinality(ids) + 1 - k]]

\* SELECT ... FROM issues i JOIN residents r ... WHERE i.status = 'new'
\* ORDER BY i.created_at ASC.  Updates are handled one at a time, so that
\* created_at ascends with issue_id.
ActiveRequests(s) ==
    SortedSeq({i \in DOMAIN s.issues :
                  /\ s.issues[i].status = "new"
                  /\ s.issues[i].resident_id \in UserIds
                  /\ s.residents[s.issues[i].resident_id].present})

\* all_requests[start_index:end_index]
Slice(list, start_index, end_index) ==
    SubSeq(list, start_index + 1, IF end_index < Len(list) THEN end_index ELSE Len(list))

\* (len(all_requests) + items_per_page - 1) // items_per_page
TotalPages(total) == (total + items_per_page - 1) \div items_per_page

\* the key last_request_list is written before the role is checked
show_active_requests(s0, u) ==
    LET s == [s0 EXCEPT !.ud.last_request_list = "active_requests"]
        all_requests == ActiveRequests(s)
        page == s.ud.active_requests_page
        start_index == page * items_per_page
        end_index == start_index + items_per_page
        paginated_requests == Slice(all_requests, start_index, end_index)
        nav_buttons == (IF page > 0 THEN {"req_prev"} ELSE {})
                       \cup (IF end_index < Len(all_requests) THEN {"req_next"} ELSE {})
                       \cup {"req_refresh"}
    IN IF ~is_agent(s.users, u)
       THEN [s EXCEPT !.text = "denied"]
       ELSE IF all_requests = << >>
       THEN [s EXCEPT !.text = "no_active_requests"]
       ELSE IF paginated_requests = << >>
       THEN [s EXCEPT !.text = "no_more_requests"]
       ELSE [s EXCEPT !.text = "page", !.keyboard = nav_buttons,
                      !.listed = paginated_requests]

\* callback "active_requests"
ButtonActiveRequests(u) ==
    /\ Apply(u, show_active_requests(
                    [Pressed(u) EXCEPT !.ud.active_requests_page = 0], u))
    /\ UNCHANGED <<conv, faults>>

\* callback "req_prev", a button of the page shown last
ButtonReqPrev(u) ==
    LET page == user_data[u].active_requests_page
    IN /\ "req_prev" \in keyboard[u]
       /\ Apply(u, show_active_requests(
                       [Pressed(u) EXCEPT !.ud.active_requests_page =
                                              IF page > 0 THEN page - 1 ELSE page], u))
       /\ UNCHANGED <<conv, faults>>

\* callback "req_next", a button of the page shown last
ButtonReqNext(u) ==
    LET page == user_data[u].active_requests_page
    IN /\ "req_next" \in keyboard[u]
       /\ Apply(u, show_active_requests(
                       [Pressed(u) EXCEPT !.ud.active_requests_page = page + 1], u))
       /\ UNCHANGED <<conv, faults>>

\* SELECT ... WHERE i.status = 'new' AND i.category = 'urgent'
\* ORDER BY i.created_at ASC
UrgentRequests(s) ==
    SortedSeq({i \in DOMAIN s.issues :
                  /\ s.issues[i].status = "new"
                  /\ s.issues[i].category = "urgent"
                  /\ s.issues[i].resident_id \in UserIds
                  /\ s.residents[s.issues[i].resident_id].present})

\* the first page of the urgent queue (urg_prev and urg_next are not modelled)
show_urgent_requests(s0, u) ==
    LET s == [s0 EXCEPT !.ud.last_request_list = "urgent_requests"]
        all_requests == UrgentRequests(s)
        paginated_requests == Slice(all_requests, 0, items_per_page)
    IN IF ~is_agent(s.users, u)
       THEN [s EXCEPT !.text = "denied"]
       ELSE IF all_requests = << >>
       THEN [s EXCEPT !.text = "no_urgent_requests"]
       ELSE [s EXCEPT !.text = "urgent_page", !.listed = paginated_requests]

\* callback "urgent_requests"
ButtonUrgentRequests(u) ==
    /\ Apply(u, show_urgent_requests(Pressed(u), u))
    /\ UNCHANGED <<conv, faults>>

\* ids ordered by completed_at DESC; NOW() differs between two completions
RECURSIVE ByCompletionDesc(_, _)
ByCompletionDesc(iss, ids) ==
    IF ids = {} THEN << >>
    ELSE LET latest == CHOOSE x \in ids :
                           \A y \in ids : iss[x].completed_at >= iss[y].completed_at
         IN <<latest>> \o ByCompletionDesc(iss, ids \ {latest})

\* SELECT ... FROM issues i JOIN residents r ... WHERE i.status = 'completed'
\* ORDER BY i.completed_at DESC LIMIT 20
CompletedRequests(s) ==
    Slice(ByCompletionDesc(s.issues,
                           {i \in DOMAIN s.issues :
                               /\ s.issues[i].status = "completed"
                               /\ s.issues[i].resident_id \in UserIds
                               /\ s.residents[s.issues[i].resident_id].present}),
          0, 20)

completed_requests(s, u) ==
    IF ~is_agent(s.users, u)
    THEN [s EXCEPT !.text = "denied"]
    ELSE IF CompletedRequests(s) = << >>
    THEN [s EXCEPT !.users = get_user_role(@, u, FALSE).users, !.text = "no_completed_requests"]
    ELSE [s EXCEPT !.text = "completed_list", !.listed = CompletedRequests(s)]

\* callback "completed_requests"
ButtonCompletedRequests(u) ==
    /\ Apply(u, completed_requests(Pressed(u), u))
    /\ UNCHANGED <<conv, faults>>

(***************************************************************************)
(* Notifications outside an update.                                        *)
(***************************************************************************)
\* the environment: a chat becomes unreachable in one way or reachable again
ChatState(u, outcome) ==
    /\ chat[u] # outcome
    /\ chat' = [chat EXCEPT ![u] = outcome]
    /\ UNCHANGED <<users, residents, issues, issue_logs, user_data, conv, alerts,
                   reply, faults, dispatch, keyboard, now, listed, pool>>

\* SELECT ... FROM issues i JOIN residents r ... WHERE i.status = 'new' AND
\* i.category = 'urgent' AND i.created_at < now - 24h.  Time is not part of
\* the state: the job is taken to run when every open urgent ticket is a day
\* old.
OverdueIssues ==
    SortedSeq({i \in DOMAIN issues :
                  /\ issues[i].status = "new"
                  /\ issues[i].category = "urgent"
                  /\ issues[i].resident_id \in UserIds
                  /\ residents[issues[i].resident_id].present})

\* for issue in overdue_issues: for recipient_id in recipients: the attempts
\* of the job.  An error that is not caught leaves both loops.
RECURSIVE DeliverAll(_, _, _)
DeliverAll(overdue_issues, recipients, caught) ==
    IF overdue_issues = << >> THEN << >>
    ELSE LET attempts == Deliver(Head(overdue_issues), recipients, caught)
             raised == /\ attempts # << >>
                       /\ attempts[Len(attempts)].outcome \notin {"ok"} \cup caught
         IN IF raised THEN attempts
            ELSE attempts \o DeliverAll(Tail(overdue_issues), recipients, caught)

\* the job of job_queue.run_repeating: recipients are the agents and admins
\* followed by the director; only BadRequest is caught
send_overdue_notifications ==
    LET agents == UsersWithRole(users, {SUPPORT_ROLES.agent, SUPPORT_ROLES.admin})
        recipients == agents \o <<DIRECTOR_CHAT_ID>>
    IN /\ OverdueIssues # << >>
       /\ dispatch' = [kind |-> "overdue", tickets |-> OverdueIssues,
                       recipients |-> recipients,
                       attempts |-> DeliverAll(OverdueIssues, recipients, {"BadRequest"}),
                       notice |-> {}]
       /\ UNCHANGED <<users, residents, issues, issue_logs, user_data, conv, alerts,
                      reply, faults, chat, keyboard, now, listed, pool>>

(***************************************************************************)
(* Specification.                                                          *)
(***************************************************************************)
\* Ticket lifecycle: identity 3 authors tickets by every path and the store
\* may fail under it; identity 2 completes them.
Next ==
    \/ \E u \in Staff \cup Authors, text \in Texts, fp \in FailPoints :
            TextMessage(u, text, fp)
    \/ \E u \in Staff, issue_id \in DOMAIN issues : complete_request(u, issue_id, "none")
    \/ \E u \in Staff, issue_id \in DOMAIN issues : show_request_detail(u, issue_id)
    \/ \E u \in Authors : new_request_start(u)
    \/ \E u \in Authors,
          t \in {"text_request", "voice_request", "photo_request", "video_request"} :
            choose_request_type(u, t)
    \/ \E u \in Authors : choose_voice_language(u)
    \/ \E u \in Authors : cancel_request(u)
    \/ \E u \in Authors, caption \in Captions, fp \in FailPoints : get_photo_request(u, caption, fp)
    \/ \E u \in Authors, caption \in Captions, fp \in FailPoints : get_video_request(u, caption, fp)
    \/ \E u \in Authors, fp \in FailPoints : get_voice_request(u, fp)

Spec == Init /\ [][Next]_vars

\* Roles: identity 1 changes roles, identity 2 completes tickets, identity 3
\* authors them by text.
NextRoles ==
    \/ \E u \in UserIds, text \in RoleTexts : TextMessage(u, text, "none")
    \/ \E u \in Staff, issue_id \in DOMAIN issues : complete_request(u, issue_id, "none")
    \/ \E u \in Admins : promote_demote_user(u)
    \/ \E u \in Admins,
          r \in {SUPPORT_ROLES.agent, SUPPORT_ROLES.admin, SUPPORT_ROLES.user} :
            ButtonSetRole(u, r)
    \/ \E u \in Authors : new_request_start(u)
    \/ \E u \in Authors : choose_request_type(u, "text_request")

SpecRoles == Init /\ [][NextRoles]_vars

\* Dialogue: registration, cancellation and reset of every identity's flows.
NextDialogue ==
    \/ \E u \in UserIds, text \in DialogueTexts : TextMessage(u, text, "none")
    \/ \E u \in UserIds : start(u)
    \/ \E u \in Authors : ButtonRegisterAsResident(u)
    \/ \E u \in UserIds : ButtonCancel(u)
    \/ \E u \in UserIds : ButtonUnknown(u)
    \/ \E u \in Staff, issue_id \in DOMAIN issues : complete_request(u, issue_id, "none")
    \/ \E u \in Staff, issue_id \in DOMAIN issues : show_request_detail(u, issue_id)
    \/ \E u \in Admins : promote_demote_user(u)
    \/ \E u \in Admins : manage_agents_menu(u)
    \/ \E u \in Staff \cup Authors : new_request_start(u)
    \/ \E u \in Authors : choose_request_type(u, "text_request")
    \/ \E u \in Authors : cancel_request(u)

SpecDialogue == Init /\ [][NextDialogue]_vars

\* Notifications: identity 3 authors urgent tickets by text, the chats of
\* the staff become unreachable, the overdue job runs, and the store may fail
\* in the recipient lookup and in role resolution.
NotifyTexts == {TxtUrgent}

NextNotify ==
    \/ \E u \in Authors, text \in NotifyTexts, fp \in {"none", "recipients"} :
            TextMessage(u, text, fp)
    \/ \E u \in Staff, issue_id \in DOMAIN issues, fp \in {"none", "connect"} :
            complete_request(u, issue_id, fp)
    \/ \E u \in Authors : new_request_start(u)
    \/ \E u \in Authors : choose_request_type(u, "text_request")
    \/ \E u \in Admins \cup Staff, outcome \in Outcomes : ChatState(u, outcome)
    \/ send_overdue_notifications

SpecNotify == Init /\ [][NextNotify]_vars

\* Completion notice: identity 3 authors tickets by text, identity 2
\* completes them, and the chat of identity 3 becomes unreachable.
NextCompletion ==
    \/ \E u \in Staff \cup Authors, text \in NotifyTexts : TextMessage(u, text, "none")
    \/ \E u \in Staff, issue_id \in DOMAIN issues : complete_request(u, issue_id, "none")
    \/ \E u \in Authors : new_request_start(u)
    \/ \E u \in Authors : choose_request_type(u, "text_request")
    \/ \E u \in Authors, outcome \in Outcomes : ChatState(u, outcome)

SpecCompletion == Init /\ [][NextCompletion]_vars

\* Registration: identity 3 registers with valid and invalid answers at
\* every step and invokes ticket authoring.
NextRegistration ==
    \/ \E u \in Authors : ButtonRegisterAsResident(u)
    \/ \E u \in Authors, text \in RegistrationTexts : TextMessage(u, text, "none")
    \/ \E u \in Authors : new_request_start(u)
    \/ \E u \in Authors : choose_request_type(u, "text_request")

SpecRegistration == Init /\ [][NextRegistration]_vars

\* Tickets: staff and identity 3 author tickets by text, list the open
\* queue, view a ticket and complete it; identity 3 is refused where a role
\* is required.
NextTickets ==
    \/ \E u \in Staff \cup Authors : new_request_start(u)
    \/ \E u \in Staff \cup Authors : choose_request_type(u, "text_request")
    \/ \E u \in Staff \cup Authors : TextMessage(u, TxtNormal, "none")
    \/ \E u \in Staff \cup Authors : ButtonActiveRequests(u)
    \/ \E u \in Staff \cup Authors, issue_id \in DOMAIN issues : show_request_detail(u, issue_id)
    \/ \E u \in Staff \cup Authors, issue_id \in DOMAIN issues :
            complete_request(u, issue_id, "none")

SpecTickets == Init /\ [][NextTickets]_vars

\* Removal: identity 3 authors a ticket, agent 2 binds and completes it,
\* and admin 1 removes the resident or the agent; the store may fail during
\* the removal of the resident.
NextRemoval ==
    \/ \E u \in Authors : new_request_start(u)
    \/ \E u \in Authors : choose_request_type(u, "text_request")
    \/ \E u \in Staff \cup Authors : TextMessage(u, TxtNormal, "none")
    \/ \E u \in Staff, issue_id \in DOMAIN issues : complete_request(u, issue_id, "none")
    \/ \E u \in Admins : delete_resident(u)
    \/ \E u \in Admins, text \in {TxtId2, TxtId3, TxtNormal}, fp \in {"none", "delete"} :
            TextMessage(u, text, fp)
    \/ \E u \in Admins, agent_id \in Staff : delete_agent(u, agent_id)

SpecRemoval == Init /\ [][NextRemoval]_vars

\* Provisioning: the staff members register themselves, and the
\* administrator provisions a resident profile for an identity it names
\* and removes one.
NextProvision ==
    \/ \E u \in Staff \cup Admins : ButtonRegisterAsResident(u)
    \/ \E u \in Admins : add_resident(u)
    \/ \E u \in Admins : delete_resident(u)
    \/ \E u \in Staff \cup Admins, text \in {TxtId1, TxtId2, TxtNormal, TxtPhone} :
            TextMessage(u, text, "none")

SpecProvision == Init /\ [][NextProvision]_vars

\* Staffing: the administrator and the staff member run the role-change flow
\* on each other and on identity 3, and the staff member opens its panel.
NextStaffing ==
    \/ \E u \in Admins \cup Staff : promote_demote_user(u)
    \/ \E u \in Admins \cup Staff, text \in {TxtId1, TxtId2, TxtId3} :
            TextMessage(u, text, "none")
    \/ \E u \in Admins \cup Staff,
          r \in {SUPPORT_ROLES.agent, SUPPORT_ROLES.admin, SUPPORT_ROLES.user} :
            ButtonSetRole(u, r)
    \/ \E u \in Staff : ButtonSelectAgent(u)
    \/ \E u \in Staff, user_id \in Authors : message_user(u, user_id)

SpecStaffing == Init /\ [][NextStaffing]_vars

\* Pool: the health endpoint is polled while the administrator enters the
\* chat id of a new resident.
NextPool ==
    \/ do_GET
    \/ \E u \in Admins : add_resident(u)
    \/ \E u \in Admins, text \in {TxtId2, TxtId3, TxtNormal} : TextMessage(u, text, "none")

SpecPool == Init /\ [][NextPool]_vars

\* Reset: identity 3 sends /start and /clear at any point of registration
\* and of ticket authoring.
ResetTexts == {TxtNormal, TxtPhone}

NextReset ==
    \/ \E u \in Authors : start(u)
    \/ \E u \in Authors : clear_chat(u)
    \/ \E u \in Authors : ButtonRegisterAsResident(u)
    \/ \E u \in Authors, text \in ResetTexts : TextMessage(u, text, "none")
    \/ \E u \in Authors : new_request_start(u)
    \/ \E u \in Authors : choose_request_type(u, "text_request")
    \/ \E u \in Authors : generate_report_command(u)
    \/ \E u \in Authors, period_type \in {"7", "week"} : process_report_period(u, period_type)

SpecReset == Init /\ [][NextReset]_vars

\* Paging: the store holds QueueLen open tickets of the registered resident
\* 3; identity 2 pages through the queue while identity 1 completes tickets.
InitPaging ==
    /\ users = [u \in UserIds |->
                  CASE u = 1 -> SUPPORT_ROLES.admin
                    [] u = 2 -> SUPPORT_ROLES.agent
                    [] OTHER -> SUPPORT_ROLES.resident]
    /\ residents = [u \in UserIds |-> IF u = 3 THEN RegisteredResident ELSE NoResident]
    /\ issues = [i \in 1..QueueLen |-> NewIssueRow(3, TxtNormal, "normal", "none")]
    /\ issue_logs = [i \in 1..QueueLen |-> LogRow(i, "created", 3)]
    /\ user_data = [u \in UserIds |-> EmptySession]
    /\ conv = [u \in UserIds |-> "END"]
    /\ alerts = {}
    /\ reply = "none"
    /\ faults = 0
    /\ chat = [u \in UserIds |-> "ok"]
    /\ dispatch = NoDispatch
    /\ keyboard = [u \in UserIds |-> {}]
    /\ now = 1
    /\ listed = << >>
    /\ pool = IdlePool

\* Queues: the store holds QueueLen open tickets of the registered resident
\* 3, created in the order of their ids, every second one urgent; staff list
\* the open, the urgent and the completed tickets while identity 1 completes
\* tickets.
InitQueues ==
    /\ users = [u \in UserIds |->
                  CASE u = 1 -> SUPPORT_ROLES.admin
                    [] u = 2 -> SUPPORT_ROLES.agent
                    [] OTHER -> SUPPORT_ROLES.resident]
    /\ residents = [u \in UserIds |-> IF u = 3 THEN RegisteredResident ELSE NoResident]
    /\ issues = [i \in 1..QueueLen |->
                   IF i % 2 = 0 THEN NewIssueRow(3, TxtUrgent, "urgent", "none")
                   ELSE NewIssueRow(3, TxtNormal, "normal", "none")]
    /\ issue_logs = [i \in 1..QueueLen |-> LogRow(i, "created", 3)]
    /\ user_data = [u \in UserIds |-> EmptySession]
    /\ conv = [u \in UserIds |-> "END"]
    /\ alerts = {i \in 1..QueueLen : i % 2 = 0}
    /\ reply = "none"
    /\ faults = 0
    /\ chat = [u \in UserIds |-> "ok"]
    /\ dispatch = NoDispatch
    /\ keyboard = [u \in UserIds |-> {}]
    /\ now = 1
    /\ listed = << >>
    /\ pool = IdlePool

NextQueues ==
    \/ \E u \in Admins : ButtonActiveRequests(u)
    \/ \E u \in Admins : ButtonReqNext(u)
    \/ \E u \in Admins : ButtonUrgentRequests(u)
    \/ \E u \in Admins : ButtonCompletedRequests(u)
    \/ \E u \in Admins, issue_id \in DOMAIN issues : complete_request(u, issue_id, "none")
    \/ \E u \in Admins : TextMessage(u, TxtNormal, "none")

SpecQueues == InitQueues /\ [][NextQueues]_vars

NextPaging ==
    \/ \E u \in Staff : ButtonActiveRequests(u)
    \/ \E u \in Staff : ButtonReqPrev(u)
    \/ \E u \in Staff : ButtonReqNext(u)
    \/ \E u \in Admins, issue_id \in DOMAIN issues : complete_request(u, issue_id, "none")
    \/ \E u \in Admins : TextMessage(u, TxtNormal, "none")

SpecPaging == InitPaging /\ [][NextPaging]_vars

TypeOK ==
    /\ users \in [UserIds -> 0..4]
    /\ conv \in [UserIds -> ConvStates]
    /\ Len(issues) <= MaxIssues \/ Len(issues) = QueueLen
    /\ faults \in 0..MaxFaults
    /\ alerts \subseteq DOMAIN issues
    /\ chat \in [UserIds -> Outcomes]
    /\ dispatch.kind \in {"none", "urgent", "completed", "overdue", "support_message"}
    /\ now \in 1..(MaxCompletions + 1)
    /\ Range(listed) \subseteq DOMAIN issues
    /\ pool.used \in 0..maxconn

(***************************************************************************)
(* Properties.                                                             *)
(***************************************************************************)
\* the issue_logs rows of one ticket with one action
LogsOf(logs, issue_id, action) ==
    {k \in DOMAIN logs : logs[k].issue_id = issue_id /\ logs[k].action = action}

\* C1: completing a ticket is idempotent-rejecting.  Whatever is submitted
\* for a ticket that is already completed is rejected: the stored solution
\* and closed-by identity stay those of the first submission and no further
\* completion is recorded.
C1_SecondSubmissionRejected ==
    [][\A i \in DOMAIN issues :
          issues[i].status = "completed" =>
              /\ issues'[i].solution = issues[i].solution
              /\ issues'[i].closed_by = issues[i].closed_by
              /\ LogsOf(issue_logs', i, "complete") = LogsOf(issue_logs, i, "complete")]_vars

C3_TicketHasCreatedLog ==
    \A i \in DOMAIN issues : LogsOf(issue_logs, i, "created") # {}

\* C4: every status transition of a ticket produces exactly one log entry:
\* each ticket has exactly one 'created' entry, and exactly one 'complete'
\* entry if it is completed and none otherwise.
C4_OneLogPerTransition ==
    \A i \in DOMAIN issues :
        /\ Cardinality(LogsOf(issue_logs, i, "created")) = 1
        /\ Cardinality(LogsOf(issue_logs, i, "complete")) =
               IF issues[i].status = "completed" THEN 1 ELSE 0

\* C5: from a non-idle dialogue state, pressing the cancel button its prompt
\* offers ("cancel" in registration, "request_detail_<id>" under the solution
\* prompt, "manage_agents" under the role-change prompt, "cancel_request" in
\* the authoring conversation) returns the session to idle: no awaiting flag,
\* no bound ticket or user id, no entered registration field, conversation
\* over.
C5_CancelReturnsToIdle ==
    [][\A u \in UserIds :
          (\/ /\ "registration_flow" \in user_data[u].flags
              /\ ButtonCancel(u)
           \/ /\ "awaiting_solution" \in user_data[u].flags
              /\ show_request_detail(u, user_data[u].current_issue_id)
           \/ /\ "awaiting_promote_user_id" \in user_data[u].flags
              /\ manage_agents_menu(u)
           \/ /\ conv[u] = "CHOOSE_REQUEST_TYPE"
              /\ cancel_request(u))
          => /\ user_data'[u].flags = {}
             /\ user_data'[u].current_issue_id = 0
             /\ user_data'[u].promote_user_id = 0
             /\ "registration_flow" \in user_data[u].flags =>
                    /\ user_data'[u].user_name = NoText
                    /\ user_data'[u].user_address = NoText
                    /\ user_data'[u].user_phone = NoText
             /\ conv'[u] = "END"]_vars

\* C6: a ticket becomes completed only through a caller whose stored role is
\* agent or admin when the solution text is submitted and whose session has
\* that ticket id bound; a solution text routed to save_solution with no
\* bound ticket id is answered with an error and changes no ticket and no log.
C6_CompletedOnlyByStaffWithBinding ==
    [][/\ \A i \in DOMAIN issues :
             (issues[i].status = "new" /\ issues'[i].status = "completed") =>
                 /\ issues'[i].closed_by \in UserIds
                 /\ is_agent(users, issues'[i].closed_by)
                 /\ user_data[issues'[i].closed_by].current_issue_id = i
       /\ \A u \in UserIds :
             (/\ Routed(u) = "save_solution"
              /\ user_data[u].current_issue_id = 0
              /\ \E text \in Texts : TextMessage(u, text, "none")) =>
                 /\ reply' = "error_no_current_issue"
                 /\ issues' = issues
                 /\ issue_logs' = issue_logs]_vars

\* C7: every persisted ticket references an existing resident profile, and a
\* problem text an admin submits in the authoring conversation is persisted
\* as a ticket.
C7_AdminTicketPersisted ==
    [][/\ \A i \in DOMAIN issues' :
             /\ issues'[i].resident_id \in UserIds
             /\ residents'[issues'[i].resident_id].present
       /\ \A u \in UserIds :
             (/\ is_admin(users, u)
              /\ conv[u] = "GET_TEXT_REQUEST"
              /\ TextMessage(u, TxtNormal, "none")) =>
                 /\ Len(issues') = Len(issues) + 1
                 /\ reply' = "accepted"]_vars

C9_UrgentTicketAlerted ==
    [][\A i \in DOMAIN issues' :
          (/\ i \notin DOMAIN issues
           /\ issues'[i].category = "urgent"
           /\ LogsOf(issue_logs', i, "created") # {}) => i \in alerts']_vars

\* C10: the stored urgency of every ticket is the classification of its own
\* description.
C10_StoredUrgencyIsOwnClassification ==
    \A i \in DOMAIN issues :
        issues[i].category =
            IF classifyUrgency(issues[i].description) THEN "urgent" ELSE "normal"

\* C11: when the store fails during a persist step (registration phone,
\* problem text, solution text), the sender is told to try later and the
\* session is left as it was: the awaiting flag, the bound ticket and the
\* collected fields are unchanged, so the same text can be sent again.
C11_StoreFailureKeepsSession ==
    [][\A u \in UserIds, text \in Texts, fp \in FailPoints \ {"none"} :
          TextMessage(u, text, fp) =>
              /\ reply' \in {"try_later", "db_error"}
              /\ user_data'[u] = user_data[u]]_vars

\* C12: the configured director identity is always resolved to the admin
\* role by get_user_role, whatever role the users table stores for it, and
\* resolving it repeatedly leaves one users row for it with role admin.
C12_DirectorResolvedAsAdmin ==
    LET once == get_user_role(users, DIRECTOR_CHAT_ID, FALSE)
        twice == get_user_role(once.users, DIRECTOR_CHAT_ID, FALSE)
    IN /\ once.role = SUPPORT_ROLES.admin
       /\ twice.role = SUPPORT_ROLES.admin
       /\ once.users[DIRECTOR_CHAT_ID] = SUPPORT_ROLES.admin
       /\ twice.users = once.users

\* C13: when the store is unavailable during role resolution, no role is
\* returned and the caller answers with a retry-later response: pressing
\* "complete request" while the store fails under the role check is answered
\* with "try later", and the answer is not a permission decision made from a
\* default role.
C13_NoRoleGuessedOnFailure ==
    [][\A u \in UserIds, issue_id \in DOMAIN issues :
          complete_request(u, issue_id, "connect") =>
              /\ reply' = "try_later"
              /\ user_data' = user_data]_vars

\* C14: navigating the queue of open tickets keeps the page index inside
\* [0, ceil(total/pageSize)-1]: a press of "previous" or "next", also after
\* the queue shrank, renders a non-empty page of the queue and leaves the
\* stored page index in that range.
C14_PageIndexStaysInRange ==
    [][\A u \in UserIds :
          ((ButtonReqPrev(u) \/ ButtonReqNext(u)) /\ ActiveRequests(Cur(u)) # << >>) =>
              /\ reply' = "page"
              /\ user_data'[u].active_requests_page \in
                     0..(TotalPages(Len(ActiveRequests(Cur(u)))) - 1)]_vars

\* the identities a fan-out attempted to deliver to, for one ticket
AttemptedTo(issue_id) ==
    {dispatch.attempts[k].to :
        k \in {j \in DOMAIN dispatch.attempts : dispatch.attempts[j].issue_id = issue_id}}

\* C15: in the urgent-ticket fan-out a delivery failure of any kind for one
\* recipient does not abort delivery to the remaining recipients: every
\* recipient of the list gets a delivery attempt.
C15_EveryRecipientAttempted ==
    dispatch.kind = "urgent" =>
        /\ Len(dispatch.attempts) = Len(dispatch.recipients)
        /\ \A k \in DOMAIN dispatch.recipients :
              dispatch.recipients[k] \in AttemptedTo(dispatch.tickets[1])

\* C15 witness: the first delivery of an urgent fan-out failed with an error
\* that is no BadRequest, and the delivery after it was made
C15_DeliveredAfterFailure ==
    /\ dispatch.kind = "urgent"
    /\ Len(dispatch.attempts) >= 2
    /\ dispatch.attempts[1].outcome \in {"Forbidden", "NetworkError"}
    /\ dispatch.attempts[2].outcome = "ok"

\* the identities a delivery of the last fan-out failed for
FailedRecipients ==
    {dispatch.attempts[k].to :
        k \in {j \in DOMAIN dispatch.attempts : dispatch.attempts[j].outcome # "ok"}}

\* C16: in the urgent-ticket path, when delivery fails for a non-empty subset
\* of the recipients, exactly that subset is reported to the director in one
\* follow-up notice after the fan-out.
C16_FailedSubsetReported ==
    (dispatch.kind = "urgent" /\ FailedRecipients # {}) =>
        dispatch.notice = FailedRecipients

\* C17: within one dispatch, delivery is attempted exactly once per distinct
\* recipient identity and ticket: no identity, the director included when it
\* is also stored as admin or agent, is attempted twice.
C17_OneAttemptPerRecipient ==
    \A j, k \in DOMAIN dispatch.attempts :
        (/\ dispatch.attempts[j].issue_id = dispatch.attempts[k].issue_id
         /\ dispatch.attempts[j].to = dispatch.attempts[k].to) => j = k

\* C18: in the overdue-reminder fan-out a delivery failure of any kind for
\* one recipient does not prevent the delivery attempts to the remaining
\* recipients and for the remaining overdue tickets.
C18_OverdueFanOutTolerant ==
    dispatch.kind = "overdue" =>
        \A t \in Range(dispatch.tickets), r \in Range(dispatch.recipients) :
            r \in AttemptedTo(t)

\* C19: a ticket is persisted and confirmed to its author with its id even
\* if every staff notification fails or the recipient lookup fails: a step
\* that files an urgent ticket and starts the urgent alert leaves the ticket
\* stored as new with its 'created' log entry and is answered with the
\* acceptance, whatever happens to the deliveries.
C19_TicketSurvivesAlertFailure ==
    [][\A i \in alerts' \ alerts :
              /\ i \in DOMAIN issues' \ DOMAIN issues
              /\ reply' = "accepted"
              /\ issues'[i].status = "new"
              /\ issues'[i].category = "urgent"
              /\ LogsOf(issue_logs', i, "created") # {}
              /\ faults' = faults =>
                     /\ dispatch'.kind = "urgent"
                     /\ dispatch'.tickets = <<i>>
                     /\ Len(dispatch'.attempts) = Len(dispatch'.recipients)]_vars

\* C19 witness: an urgent ticket was accepted although every delivery of its
\* alert failed
C19_AcceptedWithAllDeliveriesFailed ==
    /\ reply = "accepted"
    /\ dispatch.kind = "urgent"
    /\ dispatch.attempts # << >>
    /\ \A k \in DOMAIN dispatch.attempts : dispatch.attempts[k].outcome # "ok"
    /\ dispatch.tickets[1] \in DOMAIN issues
    /\ issues[dispatch.tickets[1]].status = "new"

\* C20: if delivering the completion notice to the resident fails, the
\* ticket stays completed with its solution, closer and completion log
\* entry, and the closer still receives the success response: a solution
\* submitted for a bound, existing ticket completes it and is answered with
\* success whatever the outcome of the one delivery to the resident.
C20_CompletionSurvivesNoticeFailure ==
    [][\A u \in UserIds, text \in Texts :
          (/\ Routed(u) = "save_solution"
           /\ IssueFound(Cur(u), user_data[u].current_issue_id)
           /\ TextMessage(u, text, "none")) =>
              LET i == user_data[u].current_issue_id
                  resident == issues[i].resident_id
              IN /\ issues'[i].status = "completed"
                 /\ issues'[i].solution = text
                 /\ issues'[i].closed_by = u
                 /\ Cardinality(LogsOf(issue_logs', i, "complete")) =
                        Cardinality(LogsOf(issue_logs, i, "complete")) + 1
                 /\ reply' = "completed"
                 /\ dispatch' = [kind |-> "completed", tickets |-> <<i>>,
                                 recipients |-> <<resident>>,
                                 attempts |-> <<[issue_id |-> i, to |-> resident,
                                                 outcome |-> chat[resident]]>>,
                                 notice |-> {}]]_vars

\* C20 witness: a ticket was completed and the closer answered with success
\* although the notice to the resident was not delivered
C20_CompletedWithNoticeFailed ==
    /\ reply = "completed"
    /\ dispatch.kind = "completed"
    /\ dispatch.attempts[1].outcome # "ok"
    /\ issues[dispatch.tickets[1]].status = "completed"
    /\ LogsOf(issue_logs, dispatch.tickets[1], "complete") # {}

\* the validity of a registration answer in the words of the specification:
\* a name is made of letters, spaces and hyphens only and has at most 100
\* characters; an address is not empty; a phone is, once its separators are
\* removed, an optional '+' followed by 7 to 15 digits.  Every character
\* that is neither a digit nor '+' is taken as a separator.
ValidName(text) ==
    LET name == Strip(text)
    IN /\ name # NoText
       /\ \A i \in DOMAIN name : IsLetter(name[i]) \/ name[i] \in {" ", "-"}
       /\ Len(name) <= 100

ValidAddress(text) == Strip(text) # NoText

ValidPhone(text) ==
    LET phone == Filter(text, Range(Digits) \cup {"+"})
        ds == IF phone # << >> /\ phone[1] = "+" THEN Tail(phone) ELSE phone
    IN AllDigits(ds) /\ Len(ds) >= 7 /\ Len(ds) <= 15

\* the step of the registration flow identity u is at, or "none"
RegistrationStep(u) ==
    IF "registration_flow" \notin user_data[u].flags \/ conv[u] # "END" THEN "none"
    ELSE IF Routed(u) \in {"process_user_name", "process_user_address", "process_user_phone"}
    THEN Routed(u) ELSE "none"

\* C22: in the registration flow an invalid input at any step (a name not
\* made only of letters, spaces and hyphens or longer than 100 characters, an
\* empty address, a malformed phone) re-prompts the same step: the awaiting
\* state does not advance, no field is stored from the rejected input, and no
\* profile or role is written.
C22_InvalidInputReprompts ==
    [][\A u \in UserIds, text \in RegistrationTexts :
          (/\ TextMessage(u, text, "none")
           /\ \/ RegistrationStep(u) = "process_user_name" /\ ~ValidName(text)
              \/ RegistrationStep(u) = "process_user_address" /\ ~ValidAddress(text)
              \/ RegistrationStep(u) = "process_user_phone" /\ ~ValidPhone(text)) =>
              /\ reply' = "reprompt"
              /\ user_data' = user_data
              /\ residents' = residents
              /\ users' = users]_vars

\* C22 witness: identity 3 is at the phone step with the name and address it
\* entered, was just re-prompted, and has no profile
C22_RepromptedAtPhoneStep ==
    /\ reply = "reprompt"
    /\ {"registration_flow", "awaiting_phone"} \subseteq user_data[3].flags
    /\ user_data[3].user_name = TxtName100
    /\ user_data[3].user_address = TxtNormal
    /\ ~residents[3].present

\* C23: the registration phone step accepts exactly the inputs that, after
\* removing separators, consist of an optional leading '+' followed by 7 to
\* 15 digits, and rejects (re-prompts) all others.
C23_PhoneAcceptedIffValid ==
    [][\A u \in UserIds, text \in RegistrationTexts :
          (TextMessage(u, text, "none") /\ RegistrationStep(u) = "process_user_phone") =>
              ((reply' = "registered") <=> ValidPhone(text))]_vars

\* C24: completing registration with a valid name, then a valid address, then
\* a valid phone persists a resident profile with exactly those values and
\* the role resident, and leaves the session idle, so that no problem-text
\* state is active until ticket authoring is invoked again.
C24_ValidRegistrationPersists ==
    [][\A u \in UserIds, text \in RegistrationTexts :
          (/\ TextMessage(u, text, "none")
           /\ RegistrationStep(u) = "process_user_phone"
           /\ ValidName(user_data[u].user_name)
           /\ ValidAddress(user_data[u].user_address)
           /\ ValidPhone(text)) =>
              /\ residents'[u] = [present |-> TRUE,
                                  full_name |-> user_data[u].user_name,
                                  address |-> user_data[u].user_address,
                                  phone |-> Filter(text, Range(Digits) \cup {"+"})]
              /\ users'[u] = SUPPORT_ROLES.resident
              /\ user_data'[u] = EmptySession
              /\ conv'[u] = "END"]_vars

\* C25: after /start or /clear the caller's dialogue is idle: no awaiting
\* flag, bound ticket id, partially entered field or authoring-conversation
\* state survives, so the next plain text of the caller is input to no flow.
C25_ResetLeavesDialogueIdle ==
    [][\A u \in UserIds :
          (start(u) \/ clear_chat(u)) =>
              /\ user_data'[u] = EmptySession
              /\ conv'[u] = "END"
              /\ Routed(u)' = "main_menu"]_vars

\* C26: no ticket operation (authoring by any path, viewing, completing,
\* listing) ever changes any user's role in the users table: a row keeps its
\* role, and an identity without a row resolves to the same role afterwards.
C26_TicketOperationsKeepRoles ==
    [][NextTickets =>
          \A v \in UserIds :
              /\ users[v] # 0 => users'[v] = users[v]
              /\ RoleOf(users', v) = RoleOf(users, v)]_vars

\* C26 witness: a ticket of resident 3 was authored, listed and completed by
\* agent 2, and every role is the one the identities started with
C26_CompletedWithRolesIntact ==
    /\ \E i \in DOMAIN issues :
          /\ issues[i].resident_id = 3
          /\ issues[i].status = "completed"
          /\ issues[i].closed_by = 2
    /\ users[1] = SUPPORT_ROLES.admin
    /\ users[2] = SUPPORT_ROLES.agent
    /\ users[3] = SUPPORT_ROLES.resident

\* C27: when a role check fails (a non-staff caller opens the queue of open
\* tickets, a ticket's detail or its completion) the caller's session is left
\* exactly as it was before the event, the store is unchanged and no log
\* entry is written.
C27_DenialChangesNothing ==
    [][\A u \in UserIds :
          (/\ \/ ButtonActiveRequests(u)
              \/ \E issue_id \in DOMAIN issues :
                    show_request_detail(u, issue_id) \/ complete_request(u, issue_id, "none")
           /\ reply' = "denied") =>
              /\ user_data'[u] = user_data[u]
              /\ users' = users
              /\ residents' = residents
              /\ issues' = issues
              /\ issue_logs' = issue_logs]_vars

\* the tickets with status open, a ticket's rank in a set of tickets by
\* creation, and a listing in ascending creation order
OpenTickets == {i \in DOMAIN issues : issues[i].status = "new"}

RankIn(i, tickets) == Cardinality({j \in tickets : j < i})

Ascending(ids) == \A a, b \in DOMAIN ids : a < b => ids[a] < ids[b]

\* C28: the open and urgent queues list exactly the tickets with status open
\* (urgent: open and urgent) in ascending creation order, page by page, so
\* that a ticket created earlier comes first and a completed ticket never
\* appears; the completed list is ordered by completion time descending.
C28_QueuesOrdered ==
    [][\A u \in UserIds :
          /\ ((ButtonActiveRequests(u) \/ ButtonReqNext(u)) /\ reply' = "page") =>
                 LET first == user_data'[u].active_requests_page * items_per_page
                 IN /\ Ascending(listed')
                    /\ Range(listed') =
                           {i \in OpenTickets :
                               RankIn(i, OpenTickets) \in first..(first + items_per_page - 1)}
          /\ (ButtonUrgentRequests(u) /\ reply' = "urgent_page") =>
                 LET urgent == {i \in OpenTickets : issues[i].category = "urgent"}
                 IN /\ Ascending(listed')
                    /\ Range(listed') = {i \in urgent : RankIn(i, urgent) < items_per_page}
          /\ (ButtonCompletedRequests(u) /\ reply' = "completed_list") =>
                 /\ Range(listed') = {i \in DOMAIN issues : issues[i].status = "completed"}
                 /\ \A a, b \in DOMAIN listed' :
                        a < b => issues[listed'[a]].completed_at > issues[listed'[b]].completed_at]_vars

\* C28 witness: with ticket 1 completed, the first page of the open queue
\* lists the tickets 2 to 6 in that order
C28_OpenQueueAfterCompletion ==
    /\ reply = "page"
    /\ issues[1].status = "completed"
    /\ listed = <<2, 3, 4, 5, 6>>

\* C29: audit log entries are append-only: an entry, once written, is never
\* modified or deleted, also when an admin removes a resident or a staff
\* member.
C29_LogAppendOnly ==
    [][/\ Len(issue_logs') >= Len(issue_logs)
       /\ \A k \in DOMAIN issue_logs : issue_logs'[k] = issue_logs[k]]_vars

\* C30: after a successful resident removal the resident's profile, the
\* resident's user record and all of the resident's tickets are gone
\* together; on a store failure all of them remain.
C30_RemovalIsAllOrNothing ==
    [][\A u \in UserIds, text \in {TxtId2, TxtId3, TxtNormal}, fp \in {"none", "delete"} :
          (Routed(u) = "process_resident_delete" /\ TextMessage(u, text, fp)) =>
              /\ \A x \in UserIds :
                    residents[x].present =>
                        \/ /\ ~residents'[x].present
                           /\ users'[x] = 0
                           /\ \A i \in DOMAIN issues' : issues'[i].resident_id # x
                        \/ /\ residents'[x] = residents[x]
                           /\ users'[x] = users[x]
                           /\ \A i \in DOMAIN issues :
                                  issues[i].resident_id = x => issues'[i] = issues[i]
              /\ reply' = "resident_deleted" =>
                    \E x \in UserIds : residents[x].present /\ ~residents'[x].present
              /\ reply' = "db_error" =>
                    /\ residents' = residents
                    /\ users' = users
                    /\ issues' = issues]_vars

\* C30 witness: resident 3, who had authored ticket 1, was removed: profile,
\* user record and ticket are gone
C30_ResidentRemovedWithTicket ==
    /\ reply = "resident_deleted"
    /\ ~residents[3].present
    /\ users[3] = 0
    /\ Len(issues) = 1
    /\ issues[1] = DeletedIssue

\* C21: submitting a solution for a ticket that does not exist ends with a
\* not-found answer: no ticket row changes and no log entry is added.
C21_SolutionForMissingTicket ==
    [][\A u \in UserIds :
          (/\ Routed(u) = "save_solution"
           /\ \/ user_data[u].current_issue_id \notin DOMAIN issues
              \/ issues[user_data[u].current_issue_id].status = "deleted"
           /\ TextMessage(u, TxtNormal, "none")) =>
              /\ reply' = "not_found"
              /\ issues' = issues
              /\ issue_logs' = issue_logs]_vars

\* C21 witness: agent 2 had bound ticket 1, the ticket was deleted with its
\* resident, and the agent's solution was answered with not-found
C21_SolutionAfterRemoval ==
    /\ reply = "not_found"
    /\ Len(issues) = 1
    /\ issues[1] = DeletedIssue
    /\ issue_logs = << >>
    /\ user_data[2].current_issue_id = 0

\* C40: in every reachable state a ticket has status completed if and only
\* if it has a completion time and a solution text; open tickets have
\* neither.
C40_CompletedIffTimeAndSolution ==
    \A i \in DOMAIN issues :
        /\ issues[i].status = "completed" <=>
               (issues[i].completed_at # 0 /\ issues[i].solution # NoText)
        /\ issues[i].status = "new" =>
               (issues[i].completed_at = 0 /\ issues[i].solution = NoText)

\* C40 witness: ticket 1 is completed, with its solution and completion time
C40_CompletedTicketStored ==
    /\ Len(issues) = 1
    /\ issues[1].status = "completed"
    /\ issues[1].solution = TxtUrgent
    /\ issues[1].completed_at = 1

\* the dialogue flags of a session: the awaiting_* keys and reply_to_user
AwaitingFlags(u) == user_data[u].flags \ {"registration_flow"}

\* C32: in every reachable session state at most one awaiting_* dialogue
\* flag is set for a user, so that the text router save_user_data never has
\* to choose between two active flows.
C32_AtMostOneAwaitingFlag ==
    \A u \in UserIds : Cardinality(AwaitingFlags(u)) <= 1

\* the tickets authored by identity u
TicketsOf(iss, u) == {i \in DOMAIN iss : iss[i].resident_id = u}

\* C38: after a resident is removed, that identity cannot create a ticket or
\* regain a profile until it registers again, even if it was in the middle of
\* authoring a ticket with its resident data loaded in the session: a step
\* outside the registration flow taken while the identity has neither profile
\* nor user record leaves it without a profile and adds no ticket of it.
C38_RemovedIdentityLockedOut ==
    [][\A u \in UserIds :
          (/\ ~residents[u].present
           /\ users[u] = 0
           /\ RegistrationStep(u) = "none") =>
              /\ ~residents'[u].present
              /\ TicketsOf(issues', u) \subseteq TicketsOf(issues, u)]_vars

\* C35: registering as a resident, or being provisioned as one by an
\* administrator, never changes the role of an identity that is an agent or
\* an administrator: the last step of either flow leaves the stored role of
\* every staff member as it was.
C35_RegistrationKeepsStaffRole ==
    [][\A u \in UserIds, text \in Answers("process_new_resident_phone") :
          (/\ Routed(u) \in {"process_user_phone", "process_new_resident_phone"}
           /\ TextMessage(u, text, "none")) =>
              \A v \in UserIds :
                  users[v] \in {SUPPORT_ROLES.agent, SUPPORT_ROLES.admin} =>
                      users'[v] = users[v]]_vars

\* C36: no action of an administrator removes or changes that
\* administrator's own role or user record: after any button press or text
\* of an identity whose stored role is admin, including the add-resident and
\* delete-resident flows answered with its own id, its stored role is admin.
C36_AdminKeepsOwnRole ==
    [][\A a \in UserIds :
          (/\ users[a] = SUPPORT_ROLES.admin
           /\ \/ ButtonRegisterAsResident(a)
              \/ add_resident(a)
              \/ delete_resident(a)
              \/ \E text \in {TxtId1, TxtId2, TxtNormal, TxtPhone} :
                    /\ Routed(a) # "process_user_phone"
                    /\ TextMessage(a, text, "none")) =>
              users'[a] = SUPPORT_ROLES.admin]_vars

\* C39: after an administrator changes the role of an identity, the next
\* button press of that identity is handled with the role now stored, never
\* with a role cached earlier: the staff panel is shown on "select_agent"
\* exactly when the stored role of the caller is agent.
C39_ButtonUsesStoredRole ==
    [][\A u \in UserIds :
          ButtonSelectAgent(u) =>
              (reply' = "agent_panel" <=> RoleOf(users, u) = SUPPORT_ROLES.agent)]_vars

\* C33: a role change is written only by a caller whose stored role is admin
\* at the time of the write; a caller demoted in the middle of the flow
\* cannot complete it.
C33_RoleWrittenByAdminOnly ==
    [][\A u \in UserIds,
          r \in {SUPPORT_ROLES.agent, SUPPORT_ROLES.admin, SUPPORT_ROLES.user} :
          (/\ "awaiting_role_selection" \in user_data[u].flags
           /\ users[u] # SUPPORT_ROLES.admin
           /\ ButtonSetRole(u, r)) =>
              /\ reply' # "role_changed"
              /\ \A v \in UserIds \ {u} : users'[v] = users[v]]_vars

\* C37: a "message from support" is delivered to a user only when the stored
\* role of the sender is agent or admin at the time of sending.
C37_SupportMessageFromStaffOnly ==
    [][\A u \in UserIds, text \in Answers("send_user_message") :
          (/\ Routed(u) = "send_user_message"
           /\ TextMessage(u, text, "none")
           /\ reply' = "message_sent") =>
              users[u] \in {SUPPORT_ROLES.agent, SUPPORT_ROLES.admin}]_vars

\* C34: report generation is reachable only by an administrator: the period
\* menu of /report is shown, and a report is generated and sent, only to a
\* caller whose stored role is admin.
C34_ReportsForAdminOnly ==
    [][\A u \in UserIds :
          (\/ generate_report_command(u) /\ reply' = "report_menu"
           \/ \E period_type \in {"7", "week"} :
                 process_report_period(u, period_type) /\ reply' = "report_sent") =>
              users[u] = SUPPORT_ROLES.admin]_vars

\* C31: every pooled connection a handler acquires is released exactly once
\* before the handling finishes: between two updates no connection is checked
\* out, none was released twice, and the pool is never exhausted.
C31_PoolBalanced ==
    /\ pool.used = 0
    /\ ~pool.put_error

====
